---- MODULE Spec2Model ----
(***************************************************************************)
(* Model of the embedded command line engine of lib/src/embedded_cli.c:    *)
(* the receive ring, the line editor, autocompletion, the history arena,   *)
(* the tokenizer and the dispatcher.                                       *)
(*                                                                         *)
(* C arrays are functions over 0..size-1 and C strings are read from them  *)
(* up to the first NUL.  Every C function is an operator of the same name  *)
(* that takes the engine record and returns the engine record it leaves.   *)
(***************************************************************************)
EXTENDS Integers, Sequences, FiniteSets, TLC

VARIABLES cli, ghost

vars == <<cli, ghost>>

(***************************************************************************)
(* Bytes                                                                   *)
(***************************************************************************)
NUL == 0
BS == 8
TAB == 9
LF == 10
CR == 13
ESC == 27
SPACE == 32
QUOTE == 34
CHAR_A == 65
CHAR_B == 66
LBRACKET == 91
BACKSLASH == 92
CHAR_h == 104
DEL == 127
U16 == 65536

\* lineBreak = "\r\n"
lineBreak == <<CR, LF>>

\* "help", the name of the internal binding
HelpName == <<104, 101, 108, 112>>

(***************************************************************************)
(* Bounds of the model: the configuration the engine is constructed with   *)
(* and the table the host registers.                                       *)
(***************************************************************************)
RxBufferSize == 2
CmdBufferSize == 5
HistoryBufferSize == 3
MaxBindingCount == 3

\* the ring of the specification of the receive ring
RingBufferSize == 3

\* the longest name, the longest prefix and the longest table of the
\* specification of the autocompletion function
MaxAutoLen == 2
MaxTableLen == 2

\* the longest command the host passes to embeddedCliParseDirectCommand
MaxDirectLen == 2

\* the longest argument string of the specification of the tokenizer
MaxArgLen == 5

\* the history arena and the command buffer of the specification of the history
HistoryArenaSize == 7
HistoryLineSize == 4

\* invitation = "> " (embeddedCliDefaultConfig)
Invitation == <<62, 32>>

\* The bindings the host registers, in registration order.  binding is the
\* handler ("user"), or "NULL" for a binding registered without a handler.
UserBindings ==
    <<[name |-> <<CHAR_A, CHAR_A>>, tokenizeArgs |-> FALSE, binding |-> "user"],
      [name |-> <<CHAR_A, CHAR_A, CHAR_B>>, tokenizeArgs |-> FALSE, binding |-> "user"],
      [name |-> <<CHAR_B, CHAR_A>>, tokenizeArgs |-> TRUE, binding |-> "user"],
      [name |-> <<CHAR_B>>, tokenizeArgs |-> FALSE, binding |-> "NULL"]>>

\* Result codes a host handler may return (uint8_t)
HandlerResults == {0, 7}

(***************************************************************************)
(* The flag word and the bit macros                                        *)
(***************************************************************************)
BINDING_FLAG_AUTOCOMPLETE == 1
CLI_FLAG_OVERFLOW == 1
CLI_FLAG_INIT_COMPLETE == 2
CLI_FLAG_ALLOCATED == 4
CLI_FLAG_ESCAPE_MODE == 8
CLI_FLAG_DIRECT_PRINT == 16
CLI_FLAG_AUTOCOMPLETE_ENABLED == 32

IS_FLAG_SET(flags, flag) == (flags \div flag) % 2 = 1

SET_FLAG(flags, flag) == IF IS_FLAG_SET(flags, flag) THEN flags ELSE flags + flag

UNSET_U8FLAG(flags, flag) == IF IS_FLAG_SET(flags, flag) THEN flags - flag ELSE flags

(***************************************************************************)
(* Memory and C strings                                                    *)
(***************************************************************************)
Mem(n) == [i \in 0 .. n - 1 |-> NUL]

\* strlen(&buf[p]): bytes before the first NUL at or after p
strlen(buf, p) ==
    LET size == Cardinality(DOMAIN buf)
    IN  CHOOSE k \in 0 .. size :
            /\ \A j \in 0 .. k - 1 : (p + j) \in DOMAIN buf /\ buf[p + j] # NUL
            /\ ((p + k) \notin DOMAIN buf \/ buf[p + k] = NUL)

\* the C string at &buf[p], as a sequence of bytes
CStr(buf, p) == [i \in 1 .. strlen(buf, p) |-> buf[p + i - 1]]

\* memcpy(&buf[dst], str, Len(str)); bytes that fall outside buf are lost
memcpy(buf, dst, str) ==
    [i \in DOMAIN buf |->
        IF i >= dst /\ i < dst + Len(str) THEN str[i - dst + 1] ELSE buf[i]]

\* buf[i] = v
Store(buf, i, v) == IF i \in DOMAIN buf THEN [buf EXCEPT ![i] = v] ELSE buf

Min(a, b) == IF a < b THEN a ELSE b

Max(a, b) == IF a > b THEN a ELSE b

(***************************************************************************)
(* Output hooks                                                            *)
(***************************************************************************)
\* cli->writeChar(cli, c): the byte goes to the transport
writeChar(s, c) == [s EXCEPT !.out = Append(@, c)]

\* writeToOutput: the whole string through writeString, or byte by byte
writeToOutput(s, str) == [s EXCEPT !.out = @ \o str]

isControlChar(c) == c = CR \/ c = LF \/ c = BS \/ c = TAB \/ c = DEL

isDisplayableChar(c) == c >= 32 /\ c <= 126

(***************************************************************************)
(* Ring buffer                                                             *)
(***************************************************************************)
fifoBufAvailable(buffer) ==
    IF buffer.back >= buffer.front
    THEN (buffer.back - buffer.front) % U16
    ELSE (buffer.size - buffer.front + buffer.back) % U16

\* returns the byte and the buffer after the pop
fifoBufPop(buffer) ==
    IF buffer.front # buffer.back
    THEN [a |-> buffer.buf[buffer.front],
          buffer |-> [buffer EXCEPT !.front = ((buffer.front + 1) % U16) % buffer.size]]
    ELSE [a |-> NUL, buffer |-> buffer]

\* fifoBufPush storing the byte where back moves to
fifoBufPush_StoresAhead(buffer, a) ==
    LET newBack == ((buffer.back + 1) % U16) % buffer.size
    IN  IF newBack # buffer.front
        THEN [ok |-> TRUE,
              buffer |-> [buffer EXCEPT !.buf[newBack] = a, !.back = newBack]]
        ELSE [ok |-> FALSE, buffer |-> buffer]

\* fifoBufPush without the test for a full ring
fifoBufPush_NoFullCheck(buffer, a) ==
    LET newBack == ((buffer.back + 1) % U16) % buffer.size
    IN  [ok |-> TRUE,
         buffer |-> [buffer EXCEPT !.buf[buffer.back] = a, !.back = newBack]]

\* returns whether the byte was stored and the buffer after the push
fifoBufPush(buffer, a) ==
    LET newBack == ((buffer.back + 1) % U16) % buffer.size
    IN  IF newBack # buffer.front
        THEN [ok |-> TRUE,
              buffer |-> [buffer EXCEPT !.buf[buffer.back] = a, !.back = newBack]]
        ELSE [ok |-> FALSE, buffer |-> buffer]

embeddedCliReceiveChar(s, c) ==
    LET r == fifoBufPush(s.rxBuffer, c)
    IN  IF ~r.ok
        THEN [s EXCEPT !.flags = SET_FLAG(s.flags, CLI_FLAG_OVERFLOW)]
        ELSE [s EXCEPT !.rxBuffer = r.buffer]

(***************************************************************************)
(* Autocompletion                                                          *)
(***************************************************************************)
\* name of binding i of the table
BindingName(s, i) == s.bindings[i].name

\* the pass of getAutocompletedCommand taking the latest candidate as the first
AutocompleteStep_LatestFirst(s, prefix, acc, i) ==
    LET name == BindingName(s, i)
        len == Len(name)
        prefixLen == Len(prefix)
        cleared == [acc.flags EXCEPT ![i] = UNSET_U8FLAG(@, BINDING_FLAG_AUTOCOMPLETE)]
        isCandidate == \A j \in 0 .. prefixLen - 1 : prefix[j + 1] = name[j + 1]
        cmd == acc.cmd
        len1 == IF cmd.candidateCount = 0 \/ len < cmd.autocompletedLen
                THEN len % U16 ELSE cmd.autocompletedLen
        first == s.bindings[cmd.firstCandidate].name
        diff == {j \in s.cmdSize .. len1 - 1 : first[j + 1] # name[j + 1]}
        len2 == IF diff = {} THEN len1
                ELSE (CHOOSE j \in diff : \A k \in diff : j <= k) % U16
    IN  IF len < prefixLen \/ ~isCandidate
        THEN [acc EXCEPT !.flags = cleared]
        ELSE [flags |-> [cleared EXCEPT ![i] = SET_FLAG(@, BINDING_FLAG_AUTOCOMPLETE)],
              cmd |-> IF cmd.candidateCount = 0
                      THEN [firstCandidate |-> i, autocompletedLen |-> len1,
                            candidateCount |-> 1]
                      ELSE [firstCandidate |-> i,
                            autocompletedLen |-> len2,
                            candidateCount |-> (cmd.candidateCount + 1) % U16]]

\* One pass of the loop of getAutocompletedCommand over binding i.  acc is
\* [cmd, flags]: the AutocompletedCommand so far (firstCandidate is the index
\* of the binding whose name it points to, -1 for NULL) and bindingsFlags.
AutocompleteStep(s, prefix, acc, i) ==
    LET name == BindingName(s, i)
        len == Len(name)
        prefixLen == Len(prefix)
        cleared == [acc.flags EXCEPT ![i] = UNSET_U8FLAG(@, BINDING_FLAG_AUTOCOMPLETE)]
        isCandidate == \A j \in 0 .. prefixLen - 1 : prefix[j + 1] = name[j + 1]
        cmd == acc.cmd
        len1 == IF cmd.candidateCount = 0 \/ len < cmd.autocompletedLen
                THEN len % U16 ELSE cmd.autocompletedLen
        first == s.bindings[cmd.firstCandidate].name
        diff == {j \in s.cmdSize .. len1 - 1 : first[j + 1] # name[j + 1]}
        len2 == IF diff = {} THEN len1
                ELSE (CHOOSE j \in diff : \A k \in diff : j <= k) % U16
    IN  IF len < prefixLen \/ ~isCandidate
        THEN [acc EXCEPT !.flags = cleared]
        ELSE [flags |-> [cleared EXCEPT ![i] = SET_FLAG(@, BINDING_FLAG_AUTOCOMPLETE)],
              cmd |-> IF cmd.candidateCount = 0
                      THEN [firstCandidate |-> i, autocompletedLen |-> len1,
                            candidateCount |-> 1]
                      ELSE [firstCandidate |-> cmd.firstCandidate,
                            autocompletedLen |-> len2,
                            candidateCount |-> (cmd.candidateCount + 1) % U16]]

RECURSIVE AutocompleteLoop(_, _, _, _)
AutocompleteLoop(s, prefix, acc, i) ==
    IF i >= s.bindingsCount THEN acc
    ELSE AutocompleteLoop(s, prefix, AutocompleteStep(s, prefix, acc, i), i + 1)

\* returns [cmd, flags]: the AutocompletedCommand and the candidate flags
getAutocompletedCommand(s, prefix) ==
    LET acc0 == [cmd |-> [firstCandidate |-> -1, autocompletedLen |-> 0,
                          candidateCount |-> 0],
                 flags |-> s.bindingsFlags]
    IN  IF s.bindingsCount = 0 \/ Len(prefix) = 0 THEN acc0
        ELSE AutocompleteLoop(s, prefix, acc0, 0)

\* the bytes name[from .. to-1] of a C string given as a sequence
Slice(str, from, to) == [k \in 1 .. Max(0, to - from) |-> str[from + k]]

Spaces(n) == [k \in 1 .. Max(0, n) |-> SPACE]

\* printLiveAutocompletion without the test of CLI_FLAG_AUTOCOMPLETE_ENABLED
printLiveAutocompletion_Always(s) ==
    LET Repaint(r) ==
            LET len == IF r.cmd.candidateCount = 0 THEN s.cmdSize
                       ELSE r.cmd.autocompletedLen
                suffix == IF r.cmd.candidateCount = 0 THEN <<>>
                          ELSE Slice(BindingName(s, r.cmd.firstCandidate), s.cmdSize, len)
                s1 == [s EXCEPT !.bindingsFlags = r.flags,
                                !.out = @ \o suffix \o Spaces(s.inputLineLength - len),
                                !.inputLineLength = len]
            IN  writeToOutput(writeToOutput(writeChar(s1, CR), s1.invitation),
                              CStr(s1.cmdBuffer, 0))
    IN  Repaint(getAutocompletedCommand(s, CStr(s.cmdBuffer, 0)))

printLiveAutocompletion(s) ==
    LET Repaint(r) ==
            LET len == IF r.cmd.candidateCount = 0 THEN s.cmdSize
                       ELSE r.cmd.autocompletedLen
                suffix == IF r.cmd.candidateCount = 0 THEN <<>>
                          ELSE Slice(BindingName(s, r.cmd.firstCandidate), s.cmdSize, len)
                s1 == [s EXCEPT !.bindingsFlags = r.flags,
                                !.out = @ \o suffix \o Spaces(s.inputLineLength - len),
                                !.inputLineLength = len]
            IN  writeToOutput(writeToOutput(writeChar(s1, CR), s1.invitation),
                              CStr(s1.cmdBuffer, 0))
    IN  IF ~IS_FLAG_SET(s.flags, CLI_FLAG_AUTOCOMPLETE_ENABLED) THEN s
        ELSE Repaint(getAutocompletedCommand(s, CStr(s.cmdBuffer, 0)))

clearCurrentLine(s) ==
    LET len == s.inputLineLength + Len(s.invitation)
        s1 == [s EXCEPT !.out = (@ \o <<CR>>) \o Spaces(len) \o <<CR>>]
    IN  [s1 EXCEPT !.inputLineLength = 0]

\* the names of the bindings flagged as candidates, one per line
RECURSIVE CandidateLines(_, _)
CandidateLines(s, i) ==
    IF i >= s.bindingsCount THEN <<>>
    ELSE (IF IS_FLAG_SET(s.bindingsFlags[i], BINDING_FLAG_AUTOCOMPLETE)
          THEN BindingName(s, i) \o lineBreak ELSE <<>>)
         \o CandidateLines(s, i + 1)

\* A write at index i of the command buffer; an index at or past cmdMaxSize
\* lands in the arena bytes that follow the buffer and is recorded.
CmdWritten(s, i) == [s EXCEPT !.cmdOverrun = @ \/ i >= s.cmdMaxSize]

\* onAutocompleteRequest extending the line only for a single candidate
onAutocompleteRequest_UniqueOnly(s) ==
    LET \* the command buffer is extended to autocompletedLen
        Extend(s0, cmd) ==
            LET name == BindingName(s0, cmd.firstCandidate)
                copied == memcpy(s0.cmdBuffer, 0, Slice(name, 0, cmd.autocompletedLen))
                spaced == IF cmd.candidateCount = 1
                          THEN Store(copied, cmd.autocompletedLen, SPACE) ELSE copied
                newLen == IF cmd.candidateCount = 1
                          THEN (cmd.autocompletedLen + 1) % U16 ELSE cmd.autocompletedLen
                buf == Store(spaced, newLen, NUL)
            IN  [writeToOutput(CmdWritten([s0 EXCEPT !.cmdBuffer = buf], newLen),
                               CStr(buf, s0.cmdSize))
                    EXCEPT !.cmdSize = newLen, !.inputLineLength = newLen]
        \* the candidates are listed and the line is printed again
        Reprint(s4) ==
            [writeToOutput(writeToOutput(s4, s4.invitation), CStr(s4.cmdBuffer, 0))
                EXCEPT !.inputLineLength = s4.cmdSize]
        List(s3) == Reprint(writeToOutput(s3, CandidateLines(s3, 0)))
        Apply(s0, cmd) ==
            IF cmd.candidateCount = 0 THEN s0
            ELSE IF cmd.candidateCount = 1
            THEN Extend(s0, cmd)
            ELSE List(clearCurrentLine(s0))
        Found(r) == Apply([s EXCEPT !.bindingsFlags = r.flags], r.cmd)
    IN  Found(getAutocompletedCommand(s, CStr(s.cmdBuffer, 0)))

\* onAutocompleteRequest without the space after the name of a single candidate
onAutocompleteRequest_NoSpace(s) ==
    LET \* the command buffer is extended to autocompletedLen
        Extend(s0, cmd) ==
            LET name == BindingName(s0, cmd.firstCandidate)
                copied == memcpy(s0.cmdBuffer, 0, Slice(name, 0, cmd.autocompletedLen))
                spaced == copied
                newLen == cmd.autocompletedLen
                buf == Store(spaced, newLen, NUL)
            IN  [writeToOutput(CmdWritten([s0 EXCEPT !.cmdBuffer = buf], newLen),
                               CStr(buf, s0.cmdSize))
                    EXCEPT !.cmdSize = newLen, !.inputLineLength = newLen]
        \* the candidates are listed and the line is printed again
        Reprint(s4) ==
            [writeToOutput(writeToOutput(s4, s4.invitation), CStr(s4.cmdBuffer, 0))
                EXCEPT !.inputLineLength = s4.cmdSize]
        List(s3) == Reprint(writeToOutput(s3, CandidateLines(s3, 0)))
        Apply(s0, cmd) ==
            IF cmd.candidateCount = 0 THEN s0
            ELSE IF cmd.candidateCount = 1 \/ cmd.autocompletedLen > s0.cmdSize
            THEN Extend(s0, cmd)
            ELSE List(clearCurrentLine(s0))
        Found(r) == Apply([s EXCEPT !.bindingsFlags = r.flags], r.cmd)
    IN  Found(getAutocompletedCommand(s, CStr(s.cmdBuffer, 0)))

onAutocompleteRequest(s) ==
    LET \* the command buffer is extended to autocompletedLen
        Extend(s0, cmd) ==
            LET name == BindingName(s0, cmd.firstCandidate)
                copied == memcpy(s0.cmdBuffer, 0, Slice(name, 0, cmd.autocompletedLen))
                spaced == IF cmd.candidateCount = 1
                          THEN Store(copied, cmd.autocompletedLen, SPACE) ELSE copied
                newLen == IF cmd.candidateCount = 1
                          THEN (cmd.autocompletedLen + 1) % U16 ELSE cmd.autocompletedLen
                buf == Store(spaced, newLen, NUL)
            IN  [writeToOutput(CmdWritten([s0 EXCEPT !.cmdBuffer = buf], newLen),
                               CStr(buf, s0.cmdSize))
                    EXCEPT !.cmdSize = newLen, !.inputLineLength = newLen]
        \* the candidates are listed and the line is printed again
        Reprint(s4) ==
            [writeToOutput(writeToOutput(s4, s4.invitation), CStr(s4.cmdBuffer, 0))
                EXCEPT !.inputLineLength = s4.cmdSize]
        List(s3) == Reprint(writeToOutput(s3, CandidateLines(s3, 0)))
        Apply(s0, cmd) ==
            IF cmd.candidateCount = 0 THEN s0
            ELSE IF cmd.candidateCount = 1 \/ cmd.autocompletedLen > s0.cmdSize
            THEN Extend(s0, cmd)
            ELSE List(clearCurrentLine(s0))
        Found(r) == Apply([s EXCEPT !.bindingsFlags = r.flags], r.cmd)
    IN  Found(getAutocompletedCommand(s, CStr(s.cmdBuffer, 0)))

(***************************************************************************)
(* Line editor: displayable characters                                     *)
(***************************************************************************)
\* onCharInput reserving one byte instead of two
onCharInput_OneReserved(s, c) ==
    IF s.cmdSize + 1 >= s.cmdMaxSize THEN s
    ELSE LET s1 == [s EXCEPT !.cmdBuffer = Store(Store(@, s.cmdSize, c), s.cmdSize + 1, NUL),
                             !.cmdSize = (s.cmdSize + 1) % U16]
         IN  writeChar(s1, c)

onCharInput(s, c) ==
    IF s.cmdSize + 2 >= s.cmdMaxSize THEN s
    ELSE LET s1 == [s EXCEPT !.cmdBuffer = Store(Store(@, s.cmdSize, c), s.cmdSize + 1, NUL),
                             !.cmdSize = (s.cmdSize + 1) % U16]
         IN  writeChar(s1, c)

(***************************************************************************)
(* Tokens                                                                  *)
(***************************************************************************)
CLI_TOKEN_NPOS == 65535

\* a pointer into an array is its index; NULL is no index
NULL == -1

\* str[i] of the string at &buf[p]; a byte outside the array reads as NUL
At(buf, p, i) == IF (p + i) \in DOMAIN buf THEN buf[p + i] ELSE NUL

RECURSIVE TokenWalk(_, _, _, _, _)
TokenWalk(buf, p, pos, i, tokenCount) ==
    IF tokenCount = pos THEN i
    ELSE IF At(buf, p, i) = NUL
         THEN IF At(buf, p, i + 1) = NUL THEN i
              ELSE TokenWalk(buf, p, pos, (i + 1) % U16, (tokenCount + 1) % U16)
         ELSE TokenWalk(buf, p, pos, (i + 1) % U16, tokenCount)

\* index, relative to p, of the first char of token pos of the string at &buf[p]
getTokenPosition(buf, p, pos) ==
    IF pos = 0 THEN CLI_TOKEN_NPOS
    ELSE LET i == TokenWalk(buf, p, pos, 0, 1)
         IN  IF At(buf, p, i) # NUL THEN i ELSE CLI_TOKEN_NPOS

\* embeddedCliGetToken / embeddedCliGetTokenVariable: the index in buf of the
\* token, or NULL
embeddedCliGetToken(buf, p, pos) ==
    LET i == getTokenPosition(buf, p, pos)
    IN  IF i # CLI_TOKEN_NPOS THEN p + i ELSE NULL

RECURSIVE TokenCountWalk(_, _, _, _)
TokenCountWalk(buf, p, i, tokenCount) ==
    IF At(buf, p, i) = NUL
    THEN IF At(buf, p, i + 1) = NUL THEN tokenCount
         ELSE TokenCountWalk(buf, p, i + 1, (tokenCount + 1) % U16)
    ELSE TokenCountWalk(buf, p, i + 1, tokenCount)

embeddedCliGetTokenCount(buf, p) ==
    IF p = NULL \/ At(buf, p, 0) = NUL THEN 0
    ELSE TokenCountWalk(buf, p, 0, 1)

\* the scan with a double quote dropped instead of ending a token
RECURSIVE TokenizeScan_QuoteSkipped(_, _, _, _, _, _)
TokenizeScan_QuoteSkipped(buf, p, i, insertPos, quotesEnabled, escapeActivated) ==
    LET c == At(buf, p, i)
        isQuote == ~escapeActivated /\ c = QUOTE
        isSep == ~escapeActivated /\ c # BACKSLASH /\ c # QUOTE
                 /\ ~quotesEnabled /\ c = SPACE
        currentChar == IF isQuote \/ isSep THEN NUL ELSE c
        quotes == IF isQuote THEN ~quotesEnabled ELSE quotesEnabled
        copy == currentChar # NUL
                \/ (insertPos > 0 /\ At(buf, p, insertPos - 1) # NUL)
    IN  IF c = NUL THEN [buf |-> buf, insertPos |-> insertPos]
        ELSE IF ~escapeActivated /\ c = BACKSLASH
        THEN TokenizeScan_QuoteSkipped(buf, p, i + 1, insertPos, quotesEnabled, TRUE)
        ELSE IF isQuote
        THEN TokenizeScan_QuoteSkipped(buf, p, i + 1, insertPos, quotes, FALSE)
        ELSE IF copy
        THEN TokenizeScan_QuoteSkipped(Store(buf, p + insertPos, currentChar), p, i + 1,
                          insertPos + 1, quotes, FALSE)
        ELSE TokenizeScan_QuoteSkipped(buf, p, i + 1, insertPos, quotes, FALSE)

\* the scan copying every NUL it makes
RECURSIVE TokenizeScan_NoCollapse(_, _, _, _, _, _)
TokenizeScan_NoCollapse(buf, p, i, insertPos, quotesEnabled, escapeActivated) ==
    LET c == At(buf, p, i)
        isQuote == ~escapeActivated /\ c = QUOTE
        isSep == ~escapeActivated /\ c # BACKSLASH /\ c # QUOTE
                 /\ ~quotesEnabled /\ c = SPACE
        currentChar == IF isQuote \/ isSep THEN NUL ELSE c
        quotes == IF isQuote THEN ~quotesEnabled ELSE quotesEnabled
        copy == TRUE
    IN  IF c = NUL THEN [buf |-> buf, insertPos |-> insertPos]
        ELSE IF ~escapeActivated /\ c = BACKSLASH
        THEN TokenizeScan_NoCollapse(buf, p, i + 1, insertPos, quotesEnabled, TRUE)
        ELSE IF copy
        THEN TokenizeScan_NoCollapse(Store(buf, p + insertPos, currentChar), p, i + 1,
                          insertPos + 1, quotes, FALSE)
        ELSE TokenizeScan_NoCollapse(buf, p, i + 1, insertPos, quotes, FALSE)

\* The scan of embeddedCliTokenizeArgs from index i of the string at &buf[p].
RECURSIVE TokenizeScan(_, _, _, _, _, _)
TokenizeScan(buf, p, i, insertPos, quotesEnabled, escapeActivated) ==
    LET c == At(buf, p, i)
        isQuote == ~escapeActivated /\ c = QUOTE
        isSep == ~escapeActivated /\ c # BACKSLASH /\ c # QUOTE
                 /\ ~quotesEnabled /\ c = SPACE
        currentChar == IF isQuote \/ isSep THEN NUL ELSE c
        quotes == IF isQuote THEN ~quotesEnabled ELSE quotesEnabled
        copy == currentChar # NUL
                \/ (insertPos > 0 /\ At(buf, p, insertPos - 1) # NUL)
    IN  IF c = NUL THEN [buf |-> buf, insertPos |-> insertPos]
        ELSE IF ~escapeActivated /\ c = BACKSLASH
        THEN TokenizeScan(buf, p, i + 1, insertPos, quotesEnabled, TRUE)
        ELSE IF copy
        THEN TokenizeScan(Store(buf, p + insertPos, currentChar), p, i + 1,
                          insertPos + 1, quotes, FALSE)
        ELSE TokenizeScan(buf, p, i + 1, insertPos, quotes, FALSE)

\* embeddedCliTokenizeArgs ending the tokens with a single NUL
embeddedCliTokenizeArgs_SingleNul(buf, p) ==
    IF p = NULL THEN buf
    ELSE LET r == TokenizeScan(buf, p, 0, 0, FALSE, FALSE)
         IN  Store(r.buf, p + r.insertPos, NUL)

\* tokenizes in place the string at &buf[p]
embeddedCliTokenizeArgs(buf, p) ==
    IF p = NULL THEN buf
    ELSE LET r == TokenizeScan(buf, p, 0, 0, FALSE, FALSE)
         IN  Store(Store(r.buf, p + r.insertPos, NUL), p + r.insertPos + 1, NUL)

(***************************************************************************)
(* History                                                                 *)
(***************************************************************************)
\* the index in history.buf of item `item`, or NULL
historyGet(history, item) ==
    IF item = 0 \/ item > history.itemsCount THEN NULL
    ELSE embeddedCliGetToken(history.buf, 0, item)

\* the search loop of historyRemove: the position of the first item equal to
\* str, itemsCount + 1 when there is none
RECURSIVE HistoryFind(_, _, _)
HistoryFind(history, str, itemPosition) ==
    IF itemPosition > history.itemsCount THEN itemPosition
    ELSE IF CStr(history.buf, embeddedCliGetToken(history.buf, 0, itemPosition)) = str
         THEN itemPosition
         ELSE HistoryFind(history, str, itemPosition + 1)

\* memmove(&buf[dst], &buf[src], n)
memmove(buf, dst, src, n) ==
    [i \in DOMAIN buf |->
        IF i >= dst /\ i < dst + n /\ (src + (i - dst)) \in DOMAIN buf
        THEN buf[src + (i - dst)] ELSE buf[i]]

\* historyRemove that finds no item
historyRemove_KeepsAll(history, str) == history

historyRemove(history, str) ==
    LET count == (history.itemsCount - 1) % U16
        \* the items after the one at item move over it
        Shift(item) ==
            LET len == strlen(history.buf, item)
                remaining == history.bufferSize - (item + len + 1)
            IN  [history EXCEPT !.itemsCount = count,
                                !.buf = memmove(@, item, item + len + 1, remaining)]
        Remove(itemPosition) ==
            IF itemPosition > history.itemsCount THEN history
            ELSE IF itemPosition = count + 1
            THEN [history EXCEPT !.itemsCount = count]
            ELSE Shift(embeddedCliGetToken(history.buf, 0, itemPosition))
    IN  IF history.itemsCount = 0 THEN history
        ELSE Remove(HistoryFind(history, str, 1))

\* The eviction loop of historyPut: drops last items until len + 1 bytes are
\* free.  Returns [itemsCount, usedSize].
RECURSIVE HistoryEvict(_, _, _)
HistoryEvict(history, len, itemsCount) ==
    IF itemsCount = 0 THEN [itemsCount |-> 0, usedSize |-> 0]
    ELSE LET item == historyGet([history EXCEPT !.itemsCount = itemsCount], itemsCount)
             itemLen == strlen(history.buf, item)
             usedSize == item + itemLen + 1
             freeSpace == history.bufferSize - usedSize
         IN  IF freeSpace >= len + 1
             THEN [itemsCount |-> itemsCount, usedSize |-> usedSize]
             ELSE HistoryEvict(history, len, (itemsCount - 1) % U16)

\* historyPut copying the line without its terminator
historyPut_NoTerminator(history, str) ==
    LET len == Len(str)
        Insert(h1, ev) ==
            LET shifted == IF ev.itemsCount > 0
                           THEN memmove(h1.buf, len + 1, 0, ev.usedSize) ELSE h1.buf
            IN  [h1 EXCEPT !.buf = memcpy(shifted, 0, str),
                           !.itemsCount = (ev.itemsCount + 1) % U16]
        Evict(h1) == Insert(h1, HistoryEvict(h1, len, h1.itemsCount))
    IN  IF history.bufferSize < len + 1 THEN history
        ELSE Evict(historyRemove(history, str))

\* historyPut without the eviction loop: every item is kept and shifted
historyPut_NoEviction(history, str) ==
    LET len == Len(str)
        Last(h1) ==
            LET item == historyGet(h1, h1.itemsCount)
            IN  [itemsCount |-> h1.itemsCount,
                 usedSize |-> IF item = NULL THEN 0 ELSE item + strlen(h1.buf, item) + 1]
        Insert(h1, ev) ==
            LET shifted == IF ev.itemsCount > 0
                           THEN memmove(h1.buf, len + 1, 0, ev.usedSize) ELSE h1.buf
            IN  [h1 EXCEPT !.buf = memcpy(shifted, 0, Append(str, NUL)),
                           !.itemsCount = (ev.itemsCount + 1) % U16]
    IN  IF history.bufferSize < len + 1 THEN history
        ELSE Insert(historyRemove(history, str), Last(historyRemove(history, str)))

historyPut(history, str) ==
    LET len == Len(str)
        Insert(h1, ev) ==
            LET shifted == IF ev.itemsCount > 0
                           THEN memmove(h1.buf, len + 1, 0, ev.usedSize) ELSE h1.buf
            IN  [h1 EXCEPT !.buf = memcpy(shifted, 0, Append(str, NUL)),
                           !.itemsCount = (ev.itemsCount + 1) % U16]
        Evict(h1) == Insert(h1, HistoryEvict(h1, len, h1.itemsCount))
    IN  IF history.bufferSize < len + 1 THEN history
        ELSE Evict(historyRemove(history, str))

(***************************************************************************)
(* Line editor: history navigation and escape sequences                    *)
(***************************************************************************)
\* navigateHistory without the limit of cursor up
navigateHistory_NoLimit(s, navigateUp) ==
    LET current == IF navigateUp THEN (s.history.current + 1) % U16
                   ELSE (s.history.current - 1) % U16
        Show(s3) == printLiveAutocompletion([s3 EXCEPT !.inputLineLength = s3.cmdSize])
        \* the item is copied into the command buffer and printed
        Recall(s1, item) ==
            LET len == Len(item) % U16
                buf == Store(memcpy(s.cmdBuffer, 0, item), len, NUL)
            IN  Show(writeToOutput(CmdWritten([s1 EXCEPT !.history.current = current,
                                                         !.cmdBuffer = buf,
                                                         !.cmdSize = len], len),
                                   CStr(buf, 0)))
        Item(p) == IF p = NULL THEN <<>> ELSE CStr(s.history.buf, p)
    IN  IF \/ s.history.itemsCount = 0
           \/ (~navigateUp /\ s.history.current = 0)
        THEN s
        ELSE Recall(writeToOutput(clearCurrentLine(s), s.invitation),
                    Item(historyGet([s.history EXCEPT !.current = current], current)))

navigateHistory(s, navigateUp) ==
    LET current == IF navigateUp THEN (s.history.current + 1) % U16
                   ELSE (s.history.current - 1) % U16
        Show(s3) == printLiveAutocompletion([s3 EXCEPT !.inputLineLength = s3.cmdSize])
        \* the item is copied into the command buffer and printed
        Recall(s1, item) ==
            LET len == Len(item) % U16
                buf == Store(memcpy(s.cmdBuffer, 0, item), len, NUL)
            IN  Show(writeToOutput(CmdWritten([s1 EXCEPT !.history.current = current,
                                                         !.cmdBuffer = buf,
                                                         !.cmdSize = len], len),
                                   CStr(buf, 0)))
        Item(p) == IF p = NULL THEN <<>> ELSE CStr(s.history.buf, p)
    IN  IF \/ s.history.itemsCount = 0
           \/ (navigateUp /\ s.history.current = s.history.itemsCount)
           \/ (~navigateUp /\ s.history.current = 0)
        THEN s
        ELSE Recall(writeToOutput(clearCurrentLine(s), s.invitation),
                    Item(historyGet([s.history EXCEPT !.current = current], current)))

\* onEscapedInput leaving the escape mode set after the final byte
onEscapedInput_KeepsMode(s, c) ==
    IF c >= 64 /\ c <= 126
    THEN IF c = CHAR_A \/ c = CHAR_B THEN navigateHistory(s, c = CHAR_A) ELSE s
    ELSE s

onEscapedInput(s, c) ==
    IF c >= 64 /\ c <= 126
    THEN LET s1 == [s EXCEPT !.flags = UNSET_U8FLAG(@, CLI_FLAG_ESCAPE_MODE)]
         IN  IF c = CHAR_A \/ c = CHAR_B THEN navigateHistory(s1, c = CHAR_A) ELSE s1
    ELSE s

(***************************************************************************)
(* Dispatcher                                                              *)
(***************************************************************************)
UnknownPrefix == <<85, 110, 107, 110, 111, 119, 110, 32, 99, 111, 109, 109, 97, 110, 100, 58, 32, 34>>

UnknownSuffix == <<34, 46, 32, 87, 114, 105, 116, 101, 32, 34, 104, 101, 108, 112, 34, 32, 102, 111, 114, 32, 97, 32, 108, 105, 115, 116, 32, 111, 102, 32, 97, 118, 97, 105, 108, 97, 98, 108, 101, 32, 99, 111, 109, 109, 97, 110, 100, 115>>

HelpNotAvailable == <<72, 101, 108, 112, 32, 105, 115, 32, 110, 111, 116, 32, 97, 118, 97, 105, 108, 97, 98, 108, 101>>

HelpUsage == <<67, 111, 109, 109, 97, 110, 100, 32, 34, 104, 101, 108, 112, 34, 32, 114, 101, 99, 101, 105, 118, 101, 115, 32, 111, 110, 101, 32, 111, 114, 32, 122, 101, 114, 111, 32, 97, 114, 103, 117, 109, 101, 110, 116, 115>>

HelpText == <<80, 114, 105, 110, 116, 32, 108, 105, 115, 116, 32, 111, 102, 32, 99, 111, 109, 109, 97, 110, 100, 115>>

Bullet == <<32, 42, 32>>

\* the message of onUnknownCommand without the name
onUnknownCommand_NoName(s, name) ==
    writeToOutput(s, UnknownPrefix \o UnknownSuffix \o lineBreak)

onUnknownCommand(s, name) ==
    writeToOutput(s, UnknownPrefix \o name \o UnknownSuffix \o lineBreak)

\* " * <name>\r\n" and, when the binding has help, "\t<help>\r\n"
HelpEntry(b) ==
    Bullet \o b.name \o lineBreak
    \o (IF b.help = <<>> THEN <<>> ELSE <<TAB>> \o b.help[1] \o lineBreak)

RECURSIVE HelpList(_, _)
HelpList(s, i) ==
    IF i >= s.bindingsCount THEN <<>>
    ELSE HelpEntry(s.bindings[i]) \o HelpList(s, i + 1)

\* the first binding of the table with this name, NULL when there is none
FindBinding(s, name) ==
    LET m == {i \in 0 .. s.bindingsCount - 1 : s.bindings[i].name = name}
    IN  IF m = {} THEN NULL ELSE CHOOSE i \in m : \A k \in m : i <= k

\* onHelp on the tokenized arguments at &buf[tokens]; returns [s, ret]
onHelp(s, buf, tokens) ==
    LET tokenCount == embeddedCliGetTokenCount(buf, tokens)
        cmdName == CStr(buf, embeddedCliGetToken(buf, tokens, 1))
        i == FindBinding(s, cmdName)
    IN  IF s.bindingsCount = 0
        THEN [s |-> writeToOutput(s, HelpNotAvailable \o lineBreak), ret |-> 1]
        ELSE IF tokenCount = 0
        THEN [s |-> writeToOutput(s, HelpList(s, 0)), ret |-> 0]
        ELSE IF tokenCount = 1
        THEN IF i # NULL /\ s.bindings[i].help # <<>>
             THEN [s |-> writeToOutput(s, Bullet \o cmdName \o lineBreak \o <<TAB>>
                                          \o s.bindings[i].help[1] \o lineBreak),
                   ret |-> 0]
             ELSE IF i # NULL
             THEN [s |-> writeToOutput(s, HelpNotAvailable \o lineBreak), ret |-> 1]
             ELSE [s |-> onUnknownCommand(s, cmdName), ret |-> 1]
        ELSE [s |-> writeToOutput(s, HelpUsage \o lineBreak), ret |-> 0]

\* A call is observed: the dispatcher ("parseCommand", name is the line it is
\* given), a binding's handler (index, name), onCommand (name) or postCommand
\* (result).  args is the pointer the callee was given into buf.
Called(s, hook, index, name, buf, args, result) ==
    [s EXCEPT !.calls = Append(@, [hook |-> hook, index |-> index, name |-> name,
                                   argsNull |-> (args = NULL),
                                   args |-> IF args = NULL THEN <<>> ELSE CStr(buf, args),
                                   result |-> result])]

\* the line a handler of the host prints: "!"
HandlerText == <<33>>

\* embeddedCliPrint restoring the line whatever the flag says
embeddedCliPrint_AlwaysRestores(s, string) ==
    LET direct == FALSE
        Logged(s3) ==
            Called(s3, "print", NULL, string, s3.out,
                   IF Len(s3.out) > Len(s.out) THEN Len(s.out) + 1 ELSE NULL, 0)
        Restore(s2) ==
            IF direct THEN s2
            ELSE printLiveAutocompletion(
                     [writeToOutput(writeToOutput(s2, s2.invitation), CStr(s2.cmdBuffer, 0))
                         EXCEPT !.inputLineLength = s2.cmdSize])
        Emit(s1) == Restore(writeToOutput(writeToOutput(s1, string), lineBreak))
    IN  IF ~s.writeChar THEN s
        ELSE Logged(Emit(IF direct THEN s ELSE clearCurrentLine(s)))

\* embeddedCliPrint; the call is logged with the bytes it emitted
embeddedCliPrint(s, string) ==
    LET direct == IS_FLAG_SET(s.flags, CLI_FLAG_DIRECT_PRINT)
        Logged(s3) ==
            Called(s3, "print", NULL, string, s3.out,
                   IF Len(s3.out) > Len(s.out) THEN Len(s.out) + 1 ELSE NULL, 0)
        Restore(s2) ==
            IF direct THEN s2
            ELSE printLiveAutocompletion(
                     [writeToOutput(writeToOutput(s2, s2.invitation), CStr(s2.cmdBuffer, 0))
                         EXCEPT !.inputLineLength = s2.cmdSize])
        Emit(s1) == Restore(writeToOutput(writeToOutput(s1, string), lineBreak))
    IN  IF ~s.writeChar THEN s
        ELSE Logged(Emit(IF direct THEN s ELSE clearCurrentLine(s)))

\* A handler of the host, or its onCommand: handle.prints says whether it
\* prints a line through embeddedCliPrint before it returns.
UserHandler(s, handle) ==
    IF handle.prints THEN embeddedCliPrint(s, HandlerText) ELSE s

\* The scan of _parseCommand for the name and the arguments, from index i.
\* st is [buf, cmdName, cmdArgs, nameFinished].
RECURSIVE ParseScan(_, _, _)
ParseScan(st, size, i) ==
    IF i >= size THEN st
    ELSE LET c == At(st.buf, 0, i)
         IN  IF c = SPACE
             THEN ParseScan([st EXCEPT
                                !.buf = IF st.cmdArgs = NULL THEN Store(@, i, NUL) ELSE @,
                                !.nameFinished = @ \/ st.cmdName # NULL],
                            size, i + 1)
             ELSE IF st.cmdName = NULL
             THEN ParseScan([st EXCEPT !.cmdName = i], size, i + 1)
             ELSE IF st.cmdArgs = NULL /\ st.nameFinished
             THEN ParseScan([st EXCEPT !.cmdArgs = i], size, i + 1)
             ELSE ParseScan(st, size, i + 1)

\* The binding found for the command: tokenize, call the handler, postCommand.
InvokeBinding(s, buf, i, cmdArgs, direct_mode, handle) ==
    LET b == s.bindings[i]
        Leave(s3) ==
            IF ~direct_mode
            THEN [s3 EXCEPT !.flags = UNSET_U8FLAG(@, CLI_FLAG_DIRECT_PRINT)] ELSE s3
        Post(s2, buf1, result) ==
            Leave(IF s2.postCommand
                  THEN Called(s2, "postCommand", NULL, <<>>, buf1, NULL, result)
                  ELSE s2)
        Returned(h, buf1) ==
            Post(Called(h.s, "binding", i, b.name, buf1, cmdArgs, h.ret % 256),
                 buf1, h.ret % 256)
        Call(s1, buf1) ==
            [s |-> Returned(IF b.binding = "onHelp" THEN onHelp(s1, buf1, cmdArgs)
                            ELSE [s |-> UserHandler(s1, handle), ret |-> handle.result],
                            buf1),
             buf |-> buf1, ret |-> 0]
    IN  Call(IF ~direct_mode
             THEN [s EXCEPT !.flags = SET_FLAG(@, CLI_FLAG_DIRECT_PRINT)] ELSE s,
             IF b.tokenizeArgs THEN embeddedCliTokenizeArgs(buf, cmdArgs) ELSE buf)

\* _parseCommand without the test for a line of spaces
parseCommandImpl_NoEmptyCheck(s, command_buffer, command_size, capacity, direct_mode, handle) ==
    LET isEmpty == FALSE
        Unknown(s4, buf) ==
            IF s4.postCommand THEN Called(s4, "postCommand", NULL, <<>>, buf, NULL, 1)
            ELSE s4
        \* no binding with a handler has the name: the default callback
        NotFound(s1, buf, name, cmdArgs) ==
            IF direct_mode THEN [s |-> s1, buf |-> buf, ret |-> 1]
            ELSE IF s1.onCommand
            THEN [s |-> [UserHandler(Called([s1 EXCEPT !.flags = SET_FLAG(@, CLI_FLAG_DIRECT_PRINT)],
                                            "onCommand", NULL, name, buf, cmdArgs, 0),
                                     handle)
                            EXCEPT !.flags = UNSET_U8FLAG(@, CLI_FLAG_DIRECT_PRINT)],
                  buf |-> buf, ret |-> 1]
            ELSE [s |-> Unknown(onUnknownCommand(s1, name), buf), buf |-> buf, ret |-> 1]
        Lookup(s1, buf, cmdName, cmdArgs, i) ==
            IF i # NULL /\ s1.bindings[i].binding # "NULL"
            THEN InvokeBinding(s1, buf, i, cmdArgs, direct_mode, handle)
            ELSE NotFound(s1, buf, CStr(buf, cmdName), cmdArgs)
        Resolve(s1, buf, cmdName, cmdArgs) ==
            IF cmdName = NULL THEN [s |-> s1, buf |-> buf, ret |-> 1]
            ELSE Lookup(s1, buf, cmdName, cmdArgs, FindBinding(s1, CStr(buf, cmdName)))
        \* the NUL at command_size + 1: outside the buffer the model stops
        Scanned(s1, st) ==
            IF command_size + 1 >= capacity
            THEN [s |-> [s1 EXCEPT !.cmdOverrun = TRUE], buf |-> st.buf, ret |-> 1]
            ELSE Resolve(s1, Store(st.buf, command_size + 1, NUL), st.cmdName, st.cmdArgs)
    IN  IF isEmpty THEN [s |-> s, buf |-> command_buffer, ret |-> 1]
        ELSE Scanned(IF ~direct_mode
                     THEN [s EXCEPT !.history = historyPut(@, CStr(command_buffer, 0))]
                     ELSE s,
                     ParseScan([buf |-> command_buffer, cmdName |-> NULL,
                                cmdArgs |-> NULL, nameFinished |-> FALSE],
                               command_size, 0))

\* returns [s, buf, ret]: the engine, the command buffer it was given and the
\* result.  capacity is the size of the memory command_buffer points to.
parseCommandImpl(s, command_buffer, command_size, capacity, direct_mode, handle) ==
    LET isEmpty == \A i \in 0 .. command_size - 1 : At(command_buffer, 0, i) = SPACE
        Unknown(s4, buf) ==
            IF s4.postCommand THEN Called(s4, "postCommand", NULL, <<>>, buf, NULL, 1)
            ELSE s4
        \* no binding with a handler has the name: the default callback
        NotFound(s1, buf, name, cmdArgs) ==
            IF direct_mode THEN [s |-> s1, buf |-> buf, ret |-> 1]
            ELSE IF s1.onCommand
            THEN [s |-> [UserHandler(Called([s1 EXCEPT !.flags = SET_FLAG(@, CLI_FLAG_DIRECT_PRINT)],
                                            "onCommand", NULL, name, buf, cmdArgs, 0),
                                     handle)
                            EXCEPT !.flags = UNSET_U8FLAG(@, CLI_FLAG_DIRECT_PRINT)],
                  buf |-> buf, ret |-> 1]
            ELSE [s |-> Unknown(onUnknownCommand(s1, name), buf), buf |-> buf, ret |-> 1]
        Lookup(s1, buf, cmdName, cmdArgs, i) ==
            IF i # NULL /\ s1.bindings[i].binding # "NULL"
            THEN InvokeBinding(s1, buf, i, cmdArgs, direct_mode, handle)
            ELSE NotFound(s1, buf, CStr(buf, cmdName), cmdArgs)
        Resolve(s1, buf, cmdName, cmdArgs) ==
            IF cmdName = NULL THEN [s |-> s1, buf |-> buf, ret |-> 1]
            ELSE Lookup(s1, buf, cmdName, cmdArgs, FindBinding(s1, CStr(buf, cmdName)))
        \* the NUL at command_size + 1: outside the buffer the model stops
        Scanned(s1, st) ==
            IF command_size + 1 >= capacity
            THEN [s |-> [s1 EXCEPT !.cmdOverrun = TRUE], buf |-> st.buf, ret |-> 1]
            ELSE Resolve(s1, Store(st.buf, command_size + 1, NUL), st.cmdName, st.cmdArgs)
    IN  IF isEmpty THEN [s |-> s, buf |-> command_buffer, ret |-> 1]
        ELSE Scanned(IF ~direct_mode
                     THEN [s EXCEPT !.history = historyPut(@, CStr(command_buffer, 0))]
                     ELSE s,
                     ParseScan([buf |-> command_buffer, cmdName |-> NULL,
                                cmdArgs |-> NULL, nameFinished |-> FALSE],
                               command_size, 0))

\* parses the command of the command buffer in REPL mode
parseCommand(s, handle) ==
    LET Parsed(r) == [r.s EXCEPT !.cmdBuffer = r.buf]
    IN  Parsed(parseCommandImpl(Called(s, "parseCommand", NULL, CStr(s.cmdBuffer, 0),
                                       s.cmdBuffer, NULL, 0),
                                s.cmdBuffer, s.cmdSize, s.cmdMaxSize, FALSE, handle))

\* embeddedCliParseDirectCommand parsing as the terminal's lines are parsed
embeddedCliParseDirectCommand_AsRepl(s, command, length, handle) ==
    LET buffer == [i \in 0 .. length + 1 |->
                      IF i < length /\ i < Len(command) THEN command[i + 1] ELSE NUL]
        Freed(r) == [s |-> r.s, ret |-> r.ret]
    IN  Freed(parseCommandImpl(s, buffer, length, length + 2, FALSE, handle))

\* embeddedCliParseDirectCommand: the command is copied into a buffer of
\* length + 2 bytes, as strncpy copies it, and parsed in direct mode; the
\* buffer is freed.  Returns [s, ret].
embeddedCliParseDirectCommand(s, command, length, handle) ==
    LET buffer == [i \in 0 .. length + 1 |->
                      IF i < length /\ i < Len(command) THEN command[i + 1] ELSE NUL]
        Freed(r) == [s |-> r.s, ret |-> r.ret]
    IN  Freed(parseCommandImpl(s, buffer, length, length + 2, TRUE, handle))

(***************************************************************************)
(* Line editor: control characters                                         *)
(***************************************************************************)
\* the end of a line without the completion that precedes the dispatch
SubmitLine_NoCompletion(s, handle) ==
    LET Reset(s3) ==
            IF s3.cmdOverrun THEN s3
            ELSE writeToOutput([s3 EXCEPT !.cmdSize = 0,
                                          !.cmdBuffer = Store(@, 0, NUL),
                                          !.inputLineLength = 0,
                                          !.history.current = 0],
                               s3.invitation)
        Dispatch(s2) == Reset(IF s2.cmdSize > 0 THEN parseCommand(s2, handle) ELSE s2)
    IN  Dispatch(writeToOutput(s, lineBreak))

\* CR or LF that is not the second byte of a pair
SubmitLine(s, handle) ==
    LET Reset(s3) ==
            IF s3.cmdOverrun THEN s3
            ELSE writeToOutput([s3 EXCEPT !.cmdSize = 0,
                                          !.cmdBuffer = Store(@, 0, NUL),
                                          !.inputLineLength = 0,
                                          !.history.current = 0],
                               s3.invitation)
        Dispatch(s2) == Reset(IF s2.cmdSize > 0 THEN parseCommand(s2, handle) ELSE s2)
    IN  Dispatch(writeToOutput(onAutocompleteRequest(s), lineBreak))

\* onControlInput ignoring LF after CR but not CR after LF
onControlInput_CRLFOnly(s, c, handle) ==
    IF s.lastChar = CR /\ c = LF THEN s
    ELSE IF c = CR \/ c = LF THEN SubmitLine(s, handle)
    ELSE IF (c = BS \/ c = DEL) /\ s.cmdSize > 0
    THEN LET s1 == writeChar(writeChar(writeChar(s, BS), SPACE), BS)
         IN  [s1 EXCEPT !.cmdSize = (s.cmdSize - 1) % U16,
                        !.cmdBuffer = Store(@, (s.cmdSize - 1) % U16, NUL)]
    ELSE IF c = TAB THEN onAutocompleteRequest(s)
    ELSE s

\* onControlInput erasing on BS but not on DEL
onControlInput_BSOnly(s, c, handle) ==
    IF (s.lastChar = CR /\ c = LF) \/ (s.lastChar = LF /\ c = CR) THEN s
    ELSE IF c = CR \/ c = LF THEN SubmitLine(s, handle)
    ELSE IF c = BS /\ s.cmdSize > 0
    THEN LET s1 == writeChar(writeChar(writeChar(s, BS), SPACE), BS)
         IN  [s1 EXCEPT !.cmdSize = (s.cmdSize - 1) % U16,
                        !.cmdBuffer = Store(@, (s.cmdSize - 1) % U16, NUL)]
    ELSE IF c = TAB THEN onAutocompleteRequest(s)
    ELSE s

onControlInput(s, c, handle) ==
    IF (s.lastChar = CR /\ c = LF) \/ (s.lastChar = LF /\ c = CR) THEN s
    ELSE IF c = CR \/ c = LF THEN SubmitLine(s, handle)
    ELSE IF (c = BS \/ c = DEL) /\ s.cmdSize > 0
    THEN LET s1 == writeChar(writeChar(writeChar(s, BS), SPACE), BS)
         IN  [s1 EXCEPT !.cmdSize = (s.cmdSize - 1) % U16,
                        !.cmdBuffer = Store(@, (s.cmdSize - 1) % U16, NUL)]
    ELSE IF c = TAB THEN onAutocompleteRequest(s)
    ELSE s

(***************************************************************************)
(* Construction and the public operations                                  *)
(***************************************************************************)
\* the longest name the host registers
MaxNameLen ==
    LET lens == {Len(UserBindings[i].name) : i \in DOMAIN UserBindings} \cup {Len(HelpName)}
    IN  CHOOSE n \in lens : \A m \in lens : m <= n

NoBinding == [name |-> <<>>, help |-> <<>>, tokenizeArgs |-> FALSE, binding |-> "NULL"]

embeddedCliAddBinding(s, binding) ==
    IF s.bindingsCount = s.maxBindingsCount THEN s
    ELSE [s EXCEPT !.bindings[s.bindingsCount] = binding,
                   !.bindingsCount = (s.bindingsCount + 1) % U16]

initInternalBindings(s) ==
    embeddedCliAddBinding(s, [name |-> HelpName, help |-> <<HelpText>>,
                              tokenizeArgs |-> TRUE, binding |-> "onHelp"])

\* cliInternalBindingCount
cliInternalBindingCount == 1

\* The engine embeddedCliNew leaves for this configuration.  The memory of the
\* command buffer is followed by the rest of the arena: cmdBuffer is modelled
\* with the bytes that follow it, and cmdOverrun records a write into them.
\* The hooks of the EmbeddedCli struct start as NULL (FALSE).  out, calls and
\* read are what a step is observed to do: the bytes it emits, the calls it
\* makes and the bytes it pops from the ring.
embeddedCliNew(config) ==
    LET bindingCount == (config.maxBindingCount + cliInternalBindingCount) % U16
        allocated == (IF config.enableAutoComplete
                      THEN SET_FLAG(CLI_FLAG_ALLOCATED, CLI_FLAG_AUTOCOMPLETE_ENABLED)
                      ELSE CLI_FLAG_ALLOCATED)
    IN  initInternalBindings(
          [invitation |-> config.invitation,
           history |-> [buf |-> Mem(config.historyBufferSize),
                        bufferSize |-> config.historyBufferSize,
                        current |-> 0, itemsCount |-> 0],
           rxBuffer |-> [buf |-> Mem(config.rxBufferSize), front |-> 0, back |-> 0,
                         size |-> config.rxBufferSize],
           cmdBuffer |-> Mem(config.cmdBufferSize + MaxNameLen + 2),
           cmdSize |-> 0,
           cmdMaxSize |-> config.cmdBufferSize,
           bindings |-> [i \in 0 .. bindingCount - 1 |-> NoBinding],
           bindingsFlags |-> [i \in 0 .. bindingCount - 1 |-> 0],
           bindingsCount |-> 0,
           maxBindingsCount |-> bindingCount,
           inputLineLength |-> 0,
           lastChar |-> NUL,
           flags |-> allocated,
           writeChar |-> FALSE, onCommand |-> FALSE, postCommand |-> FALSE,
           out |-> <<>>, calls |-> <<>>, read |-> <<>>, cmdOverrun |-> FALSE])

\* the start of embeddedCliProcess printing the invitation but not setting the flag
ProcessInit_NoFlag(s) ==
    IF ~IS_FLAG_SET(s.flags, CLI_FLAG_INIT_COMPLETE)
    THEN writeToOutput(s, s.invitation)
    ELSE s

\* embeddedCliProcess up to its loop: the invitation of the first call
ProcessInit(s) ==
    IF ~IS_FLAG_SET(s.flags, CLI_FLAG_INIT_COMPLETE)
    THEN writeToOutput([s EXCEPT !.flags = SET_FLAG(@, CLI_FLAG_INIT_COMPLETE)],
                       s.invitation)
    ELSE s

\* the body of the loop of embeddedCliProcess after the pop: byte c is consumed
ConsumeChar(s0, c, handle) ==
    LET Finish(s1) ==
            IF s1.cmdOverrun THEN s1
            ELSE [printLiveAutocompletion(s1) EXCEPT !.lastChar = c]
    IN  Finish(IF IS_FLAG_SET(s0.flags, CLI_FLAG_ESCAPE_MODE) THEN onEscapedInput(s0, c)
               ELSE IF s0.lastChar = ESC /\ c = LBRACKET
               THEN [s0 EXCEPT !.flags = SET_FLAG(@, CLI_FLAG_ESCAPE_MODE)]
               ELSE IF isControlChar(c) THEN onControlInput(s0, c, handle)
               ELSE IF isDisplayableChar(c) THEN onCharInput(s0, c)
               ELSE s0)

\* one turn of the loop of embeddedCliProcess: pops a byte and consumes it
ProcessChar(s, handle) ==
    LET Pop(r) == ConsumeChar([s EXCEPT !.rxBuffer = r.buffer, !.read = Append(@, r.a)],
                              r.a, handle)
    IN  Pop(fifoBufPop(s.rxBuffer))

\* the overflow policy clearing the flag but keeping the line
ProcessFinish_KeepsLine(s) ==
    IF IS_FLAG_SET(s.flags, CLI_FLAG_OVERFLOW)
    THEN [s EXCEPT !.flags = UNSET_U8FLAG(@, CLI_FLAG_OVERFLOW)]
    ELSE s

\* embeddedCliProcess after its loop: the overflow policy
ProcessFinish(s) ==
    IF IS_FLAG_SET(s.flags, CLI_FLAG_OVERFLOW)
    THEN [s EXCEPT !.cmdSize = 0,
                   !.cmdBuffer = Store(@, 0, NUL),
                   !.flags = UNSET_U8FLAG(@, CLI_FLAG_OVERFLOW)]
    ELSE s

\* the loop of embeddedCliProcess; it stops where the command buffer is overrun
RECURSIVE ProcessLoop(_, _)
ProcessLoop(s, handle) ==
    IF s.cmdOverrun \/ fifoBufAvailable(s.rxBuffer) = 0 THEN s
    ELSE ProcessLoop(ProcessChar(s, handle), handle)

embeddedCliProcess(s, handle) ==
    LET Finish(s1) == IF s1.cmdOverrun THEN s1 ELSE ProcessFinish(s1)
    IN  IF ~s.writeChar THEN s
        ELSE Finish(ProcessLoop(ProcessInit(s), handle))

(***************************************************************************)
(* The state machine.  cli is the engine.  ghost records the last step:    *)
(* the operation (op), its byte (c), the engine before it (pre), the       *)
(* displayable bytes typed on the line since it was last empty (typed,     *)
(* meaningful while pure), their value before the step (was), the bytes    *)
(* offered to the ring since it was last emptied (batch) and the value the *)
(* autocompletion function returned (result).                              *)
(***************************************************************************)
\* the bytes the terminal sends
Keys == {CHAR_A, CHAR_B, SPACE, CR, LF, TAB, BS}

\* the bytes offered to the ring in the specification of the receive ring
RingKeys == {CHAR_A, CR}

\* the bytes of the names of the specification of the autocompletion function
AutoKeys == {CHAR_A, CHAR_B}

DefaultConfig ==
    [rxBufferSize |-> RxBufferSize, cmdBufferSize |-> CmdBufferSize,
     historyBufferSize |-> HistoryBufferSize, maxBindingCount |-> MaxBindingCount,
     enableAutoComplete |-> TRUE, invitation |-> Invitation]

NoAutoConfig == [DefaultConfig EXCEPT !.enableAutoComplete = FALSE]

RingConfig ==
    [rxBufferSize |-> RingBufferSize, cmdBufferSize |-> CmdBufferSize,
     historyBufferSize |-> 0, maxBindingCount |-> 0,
     enableAutoComplete |-> TRUE, invitation |-> Invitation]

AutoConfig ==
    [rxBufferSize |-> RxBufferSize, cmdBufferSize |-> MaxAutoLen + 2,
     historyBufferSize |-> 0, maxBindingCount |-> MaxTableLen,
     enableAutoComplete |-> TRUE, invitation |-> Invitation]

\* what a step emits, calls and pops is observed per step
Fresh(s) == [s EXCEPT !.out = <<>>, !.calls = <<>>, !.read = <<>>]

NoResult == [firstCandidate |-> NULL, autocompletedLen |-> 0, candidateCount |-> 0]

Untyped == [typed |-> <<>>, pure |-> FALSE]

\* The line typed so far after byte c is consumed: CR and LF leave an empty
\* line, a displayable byte extends a line of displayable bytes only while
\* it stays shorter than cmdMaxSize - 1, any other byte ends the tracking.
Typing(g, c, post) ==
    IF c = CR \/ c = LF THEN [typed |-> <<>>, pure |-> ~post.cmdOverrun]
    ELSE IF isDisplayableChar(c) /\ g.pure /\ Len(g.typed) + 2 < post.cmdMaxSize
    THEN [typed |-> Append(g.typed, c), pure |-> TRUE]
    ELSE Untyped

Ghost(op, c, pre, typing, was, batch, result) ==
    [op |-> op, c |-> c, pre |-> Fresh(pre), typed |-> typing.typed,
     pure |-> typing.pure, was |-> was, batch |-> batch, result |-> result]

\* the binding the host passes for a name
HostBinding(b) ==
    [name |-> b.name, help |-> <<>>, tokenizeArgs |-> b.tokenizeArgs,
     binding |-> b.binding]

\* the host registers the first n bindings of a table
RECURSIVE Register(_, _, _, _)
Register(s, table, i, n) ==
    IF i > n \/ i > Len(table) THEN s
    ELSE Register(embeddedCliAddBinding(s, HostBinding(table[i])), table, i + 1, n)

\* The engine as the host sets it up before its main loop: constructed, the
\* writeChar hook installed, its bindings registered (one more than the table
\* holds, so the last registration is refused) and process called once, which
\* prints the invitation.
Setup(config) ==
    embeddedCliProcess(
        Register([embeddedCliNew(config) EXCEPT !.writeChar = TRUE],
                 UserBindings, 1, config.maxBindingCount + 1),
        [result |-> 0, prints |-> FALSE])

Started(s) ==
    Ghost("new", NUL, s, [typed |-> <<>>, pure |-> TRUE],
          [typed |-> <<>>, pure |-> TRUE], <<>>, NoResult)

Init ==
    /\ cli = Setup(DefaultConfig)
    /\ ghost = Started(cli)

InitNoAuto ==
    /\ cli = Setup(NoAutoConfig)
    /\ ghost = Started(cli)

\* the engine as the editor finds it when the loop of process has popped a byte
Popped(s) == [s EXCEPT !.rxBuffer = fifoBufPop(s.rxBuffer).buffer]

\* The main loop of the host: a byte arrives, receive-char takes it and
\* process runs to its end.  ghost.pre is the engine as the editor finds it.
Feed(c, handle) ==
    /\ ~cli.cmdOverrun
    /\ cli' = embeddedCliProcess(embeddedCliReceiveChar(Fresh(cli), c), handle)
    /\ ghost' = Ghost("byte", c, Popped(embeddedCliReceiveChar(cli, c)),
                      Typing(ghost, c, cli'),
                      [typed |-> ghost.typed, pure |-> ghost.pure], <<>>, NoResult)

Next ==
    \E c \in Keys : \E r \in HandlerResults : Feed(c, [result |-> r, prints |-> FALSE])

\* the line editor with live autocompletion
Spec == Init /\ [][Next]_vars

NextNoAuto ==
    \E c \in Keys \ {SPACE} : \E r \in HandlerResults : Feed(c, [result |-> r, prints |-> FALSE])

\* the line editor constructed with enableAutoComplete = false
SpecNoAuto == InitNoAuto /\ [][NextNoAuto]_vars

(***************************************************************************)
(* The receive ring: the producer and the consumer as separate operations. *)
(***************************************************************************)
InitRing ==
    /\ cli = embeddedCliNew(RingConfig)
    /\ ghost = Started(cli)

\* the last step was a process call that ran its loop and emptied the ring
Emptied == ghost.op = "process" /\ ghost.pre.writeChar

\* the host installs the writeChar hook
SetWriteChar ==
    /\ ~cli.writeChar
    /\ cli' = [Fresh(cli) EXCEPT !.writeChar = TRUE]
    /\ ghost' = Ghost("hook", NUL, cli, Untyped, Untyped,
                      IF Emptied THEN <<>> ELSE ghost.batch, NoResult)

ReceiveChar(c) ==
    /\ ~cli.cmdOverrun
    /\ cli' = embeddedCliReceiveChar(Fresh(cli), c)
    /\ ghost' = Ghost("receive", c, cli, Untyped, Untyped,
                      IF Emptied THEN <<c>>
                      ELSE IF Len(ghost.batch) <= cli.rxBuffer.size
                      THEN Append(ghost.batch, c) ELSE ghost.batch,
                      NoResult)

Process(handle) ==
    /\ ~cli.cmdOverrun
    /\ cli' = embeddedCliProcess(Fresh(cli), handle)
    /\ ghost' = Ghost("process", NUL, cli, Untyped, Untyped,
                      IF Emptied THEN <<>> ELSE ghost.batch, NoResult)

NextRing ==
    \/ SetWriteChar
    \/ \E c \in RingKeys : ReceiveChar(c)
    \/ \E r \in HandlerResults : Process([result |-> r, prints |-> FALSE])

SpecRing == InitRing /\ [][NextRing]_vars

(***************************************************************************)
(* The autocompletion function on every table and every line.              *)
(***************************************************************************)
\* the sequences over S of length lo .. hi
SeqsOf(S, lo, hi) == UNION {[1 .. m -> S] : m \in lo .. hi}

AutoNames == SeqsOf(AutoKeys, 1, MaxAutoLen)

AutoTables == SeqsOf(AutoNames, 0, MaxTableLen)

AutoPrefixes == SeqsOf(AutoKeys \cup {CHAR_h}, 0, MaxAutoLen)

\* the table of the host whose names are the sequence names
TableOf(names) ==
    [i \in DOMAIN names |-> [name |-> names[i], tokenizeArgs |-> FALSE, binding |-> "user"]]

\* the line is typed byte by byte
RECURSIVE TypeAll(_, _, _)
TypeAll(s, line, i) ==
    IF i > Len(line) THEN s ELSE TypeAll(onCharInput(s, line[i]), line, i + 1)

InitAuto ==
    \E names \in AutoTables : \E line \in AutoPrefixes :
        /\ cli = Fresh(TypeAll(Register([embeddedCliNew(AutoConfig) EXCEPT !.writeChar = TRUE],
                                        TableOf(names), 1, Len(names)),
                               line, 1))
        /\ ghost = Started(cli)

\* getAutocompletedCommand is applied to the command buffer
Autocomplete ==
    /\ ghost.op = "new"
    /\ LET r == getAutocompletedCommand(cli, CStr(cli.cmdBuffer, 0))
       IN  /\ cli' = [Fresh(cli) EXCEPT !.bindingsFlags = r.flags]
           /\ ghost' = Ghost("autocomplete", NUL, cli, Untyped, Untyped, <<>>, r.cmd)

NextAuto == Autocomplete

SpecAuto == InitAuto /\ [][NextAuto]_vars

(***************************************************************************)
(* The history: lines are typed, submitted and recalled with the cursor    *)
(* keys.  The terminal sends ESC only as the start of the sequences        *)
(* ESC [ A (cursor up) and ESC [ B (cursor down).                          *)
(***************************************************************************)
HistoryKeys == {CHAR_A, CHAR_B, CR, ESC, LBRACKET}

HistoryConfig ==
    [rxBufferSize |-> RxBufferSize, cmdBufferSize |-> HistoryLineSize,
     historyBufferSize |-> HistoryArenaSize, maxBindingCount |-> 0,
     enableAutoComplete |-> TRUE, invitation |-> Invitation]

\* the arenas of the history: one too small for the longest line, one that
\* the longest line fills, and one for several lines
HistoryArenas == {HistoryLineSize - 2, HistoryLineSize - 1, HistoryArenaSize}

InitHistory ==
    \E size \in HistoryArenas :
        /\ cli = Setup([HistoryConfig EXCEPT !.historyBufferSize = size])
        /\ ghost = Started(cli)

\* the bytes the terminal can send after the bytes the engine has consumed
TerminalSends(c) ==
    IF IS_FLAG_SET(cli.flags, CLI_FLAG_ESCAPE_MODE) THEN c \in {CHAR_A, CHAR_B}
    ELSE IF cli.lastChar = ESC THEN c = LBRACKET
    ELSE c \in {CHAR_A, CHAR_B, CR, ESC}

NextHistory ==
    \E c \in HistoryKeys : TerminalSends(c) /\ Feed(c, [result |-> 0, prints |-> FALSE])

SpecHistory == InitHistory /\ [][NextHistory]_vars

\* the history on every arena, the one of no bytes included
InitArena ==
    \E size \in {0} \cup HistoryArenas :
        /\ cli = Setup([HistoryConfig EXCEPT !.historyBufferSize = size])
        /\ ghost = Started(cli)

SpecArena == InitArena /\ [][NextHistory]_vars

(***************************************************************************)
(* The tokenizer on every argument string: cli is the buffer the host      *)
(* passes (args) and the number of times it was tokenized (runs); ghost    *)
(* keeps the string (raw) and the buffer before the last run (pre).        *)
(***************************************************************************)
ArgBytes == {CHAR_A, CHAR_B, SPACE, QUOTE, BACKSLASH}

ArgStrings == SeqsOf(ArgBytes, 0, MaxArgLen)

\* The buffer of an argument string: the string, its NUL and the spare byte
\* the double NUL needs, which holds anything before the call.
ArgBuffer(str, spare) ==
    [i \in 0 .. Len(str) + 1 |->
        IF i < Len(str) THEN str[i + 1] ELSE IF i = Len(str) THEN NUL ELSE spare]

InitTokens ==
    \E str \in ArgStrings : \E spare \in {NUL, CHAR_B} :
        /\ cli = [args |-> ArgBuffer(str, spare), runs |-> 0]
        /\ ghost = [op |-> "new", raw |-> str, pre |-> cli.args]

\* the host calls embeddedCliTokenizeArgs on the buffer
TokenizeArgs ==
    /\ cli.runs < 2
    /\ cli' = [args |-> embeddedCliTokenizeArgs(cli.args, 0), runs |-> cli.runs + 1]
    /\ ghost' = [op |-> "tokenize", raw |-> ghost.raw, pre |-> cli.args]

NextTokens == TokenizeArgs

SpecTokens == InitTokens /\ [][NextTokens]_vars

(***************************************************************************)
(* Erasing: a line is typed and erased with BS and DEL, with and without   *)
(* live autocompletion.                                                    *)
(***************************************************************************)
EraseKeys == {CHAR_A, CHAR_B, BS, DEL, CR}

InitErase ==
    \E auto \in BOOLEAN :
        /\ cli = Setup([DefaultConfig EXCEPT !.enableAutoComplete = auto])
        /\ ghost = Started(cli)

NextErase ==
    \E c \in EraseKeys : Feed(c, [result |-> 0, prints |-> FALSE])

SpecErase == InitErase /\ [][NextErase]_vars

(***************************************************************************)
(* The dispatcher: lines are submitted from the terminal and commands are  *)
(* passed to embeddedCliParseDirectCommand, with and without the onCommand *)
(* and postCommand hooks.  ghost.batch is the command passed directly.     *)
(***************************************************************************)
DispatchKeys == {CHAR_A, CHAR_B, SPACE, CR}

\* the table of the host: one of its bindings has no handler
DispatchBindings ==
    << [name |-> <<CHAR_A, CHAR_A>>, tokenizeArgs |-> FALSE, binding |-> "user"],
       [name |-> <<CHAR_B>>, tokenizeArgs |-> FALSE, binding |-> "NULL"],
       [name |-> <<CHAR_B, CHAR_A>>, tokenizeArgs |-> TRUE, binding |-> "user"] >>

DirectCommands == SeqsOf({CHAR_A, CHAR_B}, 1, MaxDirectLen) \cup {HelpName}

\* the engine of the dispatcher with its hooks, set up as in Setup
Hooked(config, onCommand, postCommand) ==
    embeddedCliProcess(
        Register([embeddedCliNew(config) EXCEPT !.writeChar = TRUE,
                                                !.onCommand = onCommand,
                                                !.postCommand = postCommand],
                 DispatchBindings, 1, MaxBindingCount),
        [result |-> 0, prints |-> FALSE])

InitDispatch ==
    \E onCommand \in BOOLEAN : \E postCommand \in BOOLEAN :
        /\ cli = Hooked(DefaultConfig, onCommand, postCommand)
        /\ ghost = Started(cli)

NextDispatch ==
    \E c \in DispatchKeys : \E r \in HandlerResults : Feed(c, [result |-> r, prints |-> FALSE])

\* lines submitted from the terminal
SpecDispatch == InitDispatch /\ [][NextDispatch]_vars

DirectKeys == {CHAR_A, CHAR_B, CR}

InitDirect ==
    \E onCommand \in BOOLEAN :
        /\ cli = Hooked([DefaultConfig EXCEPT !.historyBufferSize = 0], onCommand, TRUE)
        /\ ghost = Started(cli)

\* the host passes a command to embeddedCliParseDirectCommand; ghost.c is the
\* value returned
Direct(command, handle) ==
    /\ ~cli.cmdOverrun
    /\ LET r == embeddedCliParseDirectCommand(Fresh(cli), command, Len(command), handle)
       IN  /\ cli' = r.s
           /\ ghost' = Ghost("direct", r.ret, cli,
                             [typed |-> ghost.typed, pure |-> ghost.pure],
                             ghost.was, command, NoResult)

NextDirect ==
    \/ \E c \in DirectKeys : \E r \in HandlerResults : Feed(c, [result |-> r, prints |-> FALSE])
    \/ \E command \in DirectCommands : \E r \in HandlerResults :
          Direct(command, [result |-> r, prints |-> FALSE])

\* lines submitted from the terminal and commands passed directly, with the
\* postCommand hook
SpecDirect == InitDirect /\ [][NextDirect]_vars

(***************************************************************************)
(* The main context of the host: bytes arrive from the terminal, commands  *)
(* are passed to embeddedCliParseDirectCommand and lines are printed with  *)
(* embeddedCliPrint, by the main loop and by the handlers, with and        *)
(* without live autocompletion.                                            *)
(***************************************************************************)
HostKeys == {CHAR_A, CHAR_B, CR}

HostCommands ==
    {<<SPACE>>, <<CHAR_A>>, <<CHAR_A, CHAR_A>>, <<CHAR_B>>, HelpName,
     HelpName \o <<SPACE, CHAR_A>>}

InitHost ==
    \E auto \in BOOLEAN :
        /\ cli = Hooked([DefaultConfig EXCEPT !.enableAutoComplete = auto], TRUE, TRUE)
        /\ ghost = Started(cli)

\* the main loop prints a line
HostPrints(string) ==
    /\ ~cli.cmdOverrun
    /\ cli' = embeddedCliPrint(Fresh(cli), string)
    /\ ghost' = Ghost("print", NUL, cli, [typed |-> ghost.typed, pure |-> ghost.pure],
                      ghost.was, <<>>, NoResult)

NextHost ==
    \/ \E c \in HostKeys : \E prints \in BOOLEAN :
          Feed(c, [result |-> 0, prints |-> prints])
    \/ \E command \in HostCommands : \E prints \in BOOLEAN :
          Direct(command, [result |-> 0, prints |-> prints])
    \/ HostPrints(HandlerText)

SpecHost == InitHost /\ [][NextHost]_vars

(***************************************************************************)
(* The interrupt and the main loop: embeddedCliReceiveChar (the producer)  *)
(* and embeddedCliProcess (the consumer) run in two contexts and           *)
(* interleave at every load and store of the memory they share: the ring   *)
(* and the flag word.  cli is [s, p, c]: the engine in memory, and the     *)
(* position and the registers of the producer (p) and of the consumer (c). *)
(* Each context executes its loads and stores in program order.  ghost     *)
(* records the bytes offered (sent), pushed and popped, the places in the  *)
(* stream of pushed bytes where a byte was dropped (drops), where the line *)
(* in flight starts (lineStart), the line last dispatched (from, to) and   *)
(* whether an overflow was recorded that the check at the end of process   *)
(* has neither seen nor cleared (unseen).                                  *)
(***************************************************************************)
\* the bytes the producer is offered over a run
MaxSent == 4

IsrKeys == {CHAR_A, CR, ESC, LBRACKET}

IsrConfig ==
    [rxBufferSize |-> RingBufferSize, cmdBufferSize |-> CmdBufferSize,
     historyBufferSize |-> 0, maxBindingCount |-> 1,
     enableAutoComplete |-> TRUE, invitation |-> Invitation]

IsrHandle == [result |-> 0, prints |-> FALSE]

\* flags |= flag and flags &= ~flag as the load and the store they compile to
SetOf(flag) == [set |-> TRUE, flag |-> flag]

UnsetOf(flag) == [set |-> FALSE, flag |-> flag]

\* the word a read-modify-write stores for the word it loaded
Modified(write, flags) ==
    IF write.set THEN SET_FLAG(flags, write.flag) ELSE UNSET_U8FLAG(flags, write.flag)

\* fifoBufAvailable when back is loaded twice: the value compared with front
\* and the value of buffer, the one subtracted
fifoBufAvailableRead(buffer, compared) ==
    IF compared >= buffer.front
    THEN (buffer.back - buffer.front) % U16
    ELSE (buffer.size - buffer.front + buffer.back) % U16

\* The read-modify-writes of the flag word in the body of the loop for byte
\* c, in program order; now is the engine the body leaves.
FlagWrites(s, c, now) ==
    IF IS_FLAG_SET(s.flags, CLI_FLAG_ESCAPE_MODE)
    THEN (IF c >= 64 /\ c <= 126 THEN <<UnsetOf(CLI_FLAG_ESCAPE_MODE)>> ELSE <<>>)
    ELSE IF s.lastChar = ESC /\ c = LBRACKET
    THEN <<SetOf(CLI_FLAG_ESCAPE_MODE)>>
    ELSE IF \E k \in DOMAIN now.calls : now.calls[k].hook \in {"binding", "onCommand"}
    THEN <<SetOf(CLI_FLAG_DIRECT_PRINT), UnsetOf(CLI_FLAG_DIRECT_PRINT)>>
    ELSE <<>>

\* what a step of the consumer computes, without the memory it shares: the
\* ring and the flag word stay as they are in memory
Private(now, s) == [now EXCEPT !.flags = s.flags, !.rxBuffer = s.rxBuffer]

\* the ring as a context sees it with the index it loaded
SeenFront(front) == [cli.s.rxBuffer EXCEPT !.front = front]

SeenBack(back) == [cli.s.rxBuffer EXCEPT !.back = back]

InitIsr ==
    /\ cli = [s |-> Register([embeddedCliNew(IsrConfig) EXCEPT !.writeChar = TRUE,
                                                              !.onCommand = TRUE],
                             UserBindings, 1, 1),
              p |-> [pc |-> "idle", a |-> NUL, front |-> 0, flags |-> 0],
              c |-> [pc |-> "idle", a |-> NUL, back |-> 0, flags |-> 0,
                     pending |-> <<>>, after |-> "idle"]]
    /\ ghost = [op |-> "new", sent |-> 0, pushed |-> <<>>, popped |-> <<>>,
                drops |-> {}, lineStart |-> 0, from |-> 0, to |-> 0, unseen |-> FALSE]

\* what a step does is observed per step
Step(op) == [ghost EXCEPT !.op = op]

\* fifoBufPush: newBack is compared with the front it loads
PushLoad(a) ==
    /\ cli.p.pc = "idle"
    /\ ghost.sent < MaxSent
    /\ LET r == fifoBufPush(cli.s.rxBuffer, a)
       IN  cli' = [cli EXCEPT !.s = Fresh(@),
                              !.p = [pc |-> IF r.ok THEN "slot" ELSE "flags", a |-> a,
                                     front |-> cli.s.rxBuffer.front, flags |-> 0]]
    /\ ghost' = [Step("push") EXCEPT !.sent = @ + 1]

\* fifoBufPush: buffer->buf[buffer->back] = a
PushSlot ==
    /\ cli.p.pc = "slot"
    /\ cli' = [cli EXCEPT !.s = [Fresh(@) EXCEPT !.rxBuffer.buf =
                                    fifoBufPush(SeenFront(cli.p.front), cli.p.a).buffer.buf],
                          !.p.pc = "back"]
    /\ ghost' = Step("slot")

\* fifoBufPush: buffer->back = newBack
PushBack ==
    /\ cli.p.pc = "back"
    /\ cli' = [cli EXCEPT !.s = [Fresh(@) EXCEPT !.rxBuffer.back =
                                    fifoBufPush(SeenFront(cli.p.front), cli.p.a).buffer.back],
                          !.p.pc = "idle"]
    /\ ghost' = [Step("back") EXCEPT !.pushed = Append(@, cli.p.a)]

\* SET_FLAG(impl->flags, CLI_FLAG_OVERFLOW): the load
OverflowLoad ==
    /\ cli.p.pc = "flags"
    /\ cli' = [cli EXCEPT !.s = Fresh(@), !.p.flags = cli.s.flags, !.p.pc = "set"]
    /\ ghost' = Step("dropped")

\* SET_FLAG(impl->flags, CLI_FLAG_OVERFLOW): the store
OverflowStore ==
    /\ cli.p.pc = "set"
    /\ cli' = [cli EXCEPT !.s = [Fresh(@) EXCEPT !.flags =
                                    SET_FLAG(cli.p.flags, CLI_FLAG_OVERFLOW)],
                          !.p.pc = "idle"]
    /\ ghost' = [Step("overflow") EXCEPT !.drops = @ \cup {Len(ghost.pushed)},
                                         !.unseen = TRUE]

\* the consumer goes on to pc, through the read-modify-writes it has to do
Continue(c, writes, pc) ==
    [c EXCEPT !.pending = writes, !.after = pc,
              !.pc = IF writes = <<>> THEN pc ELSE "load"]

\* embeddedCliProcess is called: the test of CLI_FLAG_INIT_COMPLETE
ProcessEnter ==
    /\ cli.c.pc = "idle"
    /\ cli.s.writeChar
    /\ cli' = [cli EXCEPT !.s = Private(ProcessInit(Fresh(@)), cli.s),
                          !.c = Continue(@, IF IS_FLAG_SET(cli.s.flags, CLI_FLAG_INIT_COMPLETE)
                                            THEN <<>> ELSE <<SetOf(CLI_FLAG_INIT_COMPLETE)>>,
                                         "avail")]
    /\ ghost' = Step("process")

\* the load of a read-modify-write of the flag word
FlagLoad ==
    /\ cli.c.pc = "load"
    /\ cli' = [cli EXCEPT !.s = Fresh(@), !.c.flags = cli.s.flags, !.c.pc = "store"]
    /\ ghost' = Step("load")

\* the store of a read-modify-write of the flag word
FlagStore ==
    /\ cli.c.pc = "store"
    /\ cli' = [cli EXCEPT !.s = [Fresh(@) EXCEPT !.flags =
                                    Modified(Head(cli.c.pending), cli.c.flags)],
                          !.c = Continue(@, Tail(cli.c.pending), cli.c.after)]
    /\ ghost' = [Step("store") EXCEPT !.unseen =
                    @ /\ Head(cli.c.pending) # UnsetOf(CLI_FLAG_OVERFLOW)]

\* fifoBufAvailable: back is loaded and compared with front
AvailCompare ==
    /\ cli.c.pc = "avail"
    /\ ~cli.s.cmdOverrun
    /\ cli' = [cli EXCEPT !.s = Fresh(@), !.c.back = cli.s.rxBuffer.back, !.c.pc = "count"]
    /\ ghost' = Step("compare")

\* fifoBufAvailable: back is loaded and the count returned to the loop
AvailCount ==
    /\ cli.c.pc = "count"
    /\ cli' = [cli EXCEPT !.s = Fresh(@),
                          !.c.pc = IF fifoBufAvailableRead(cli.s.rxBuffer, cli.c.back) = 0
                                   THEN "fin" ELSE "pop"]
    /\ ghost' = Step("count")

\* fifoBufPop: front is compared with the back it loads
PopCompare ==
    /\ cli.c.pc = "pop"
    /\ cli' = [cli EXCEPT !.s = Fresh(@), !.c.back = cli.s.rxBuffer.back, !.c.a = NUL,
                          !.c.pc = IF cli.s.rxBuffer.front # cli.s.rxBuffer.back
                                   THEN "slot" ELSE "char"]
    /\ ghost' = Step("pop")

\* fifoBufPop: a = buffer->buf[buffer->front]
PopSlot ==
    /\ cli.c.pc = "slot"
    /\ cli' = [cli EXCEPT !.s = Fresh(@), !.c.a = fifoBufPop(SeenBack(cli.c.back)).a,
                          !.c.pc = "front"]
    /\ ghost' = Step("read")

\* fifoBufPop: buffer->front is stored
PopFront ==
    /\ cli.c.pc = "front"
    /\ cli' = [cli EXCEPT !.s = [Fresh(@) EXCEPT
                                    !.rxBuffer.front =
                                        fifoBufPop(SeenBack(cli.c.back)).buffer.front,
                                    !.read = <<cli.c.a>>],
                          !.c.pc = "char"]
    /\ ghost' = [Step("front") EXCEPT !.popped = Append(@, cli.c.a)]

\* the body of the loop: the byte popped is consumed
Consume ==
    /\ cli.c.pc = "char"
    /\ LET now == ConsumeChar(Fresh(cli.s), cli.c.a, IsrHandle)
           ended == cli.c.a = CR \/ cli.c.a = LF
       IN  /\ cli' = [cli EXCEPT !.s = Private(now, cli.s),
                                 !.c = Continue(@, FlagWrites(cli.s, cli.c.a, now), "avail")]
           /\ ghost' = [Step("char") EXCEPT
                           !.lineStart = IF ended THEN Len(ghost.popped) ELSE @,
                           !.from = IF ended THEN ghost.lineStart ELSE @,
                           !.to = IF ended THEN Len(ghost.popped) - 1 ELSE @]

\* after the loop: the test of CLI_FLAG_OVERFLOW and the discard of the line
Finish ==
    /\ cli.c.pc = "fin"
    /\ cli' = [cli EXCEPT !.s = Private(ProcessFinish(Fresh(@)), cli.s),
                          !.c = Continue(@, IF IS_FLAG_SET(cli.s.flags, CLI_FLAG_OVERFLOW)
                                            THEN <<UnsetOf(CLI_FLAG_OVERFLOW)>> ELSE <<>>,
                                         "idle")]
    /\ ghost' = [Step("finish") EXCEPT
                    !.unseen = @ /\ ~IS_FLAG_SET(cli.s.flags, CLI_FLAG_OVERFLOW)]

NextIsr ==
    \/ \E a \in IsrKeys : PushLoad(a)
    \/ PushSlot
    \/ PushBack
    \/ OverflowLoad
    \/ OverflowStore
    \/ ProcessEnter
    \/ FlagLoad
    \/ FlagStore
    \/ AvailCompare
    \/ AvailCount
    \/ PopCompare
    \/ PopSlot
    \/ PopFront
    \/ Consume
    \/ Finish

SpecIsr == InitIsr /\ [][NextIsr]_vars

(***************************************************************************)
(* Escape sequences: after ESC [ the terminal sends any byte, control      *)
(* bytes and a second ESC [ included.  Outside a sequence it sends [ only  *)
(* after ESC, and B and LF only inside a sequence.                         *)
(***************************************************************************)
EscapeKeys == {CHAR_A, CHAR_B, SPACE, CR, LF, ESC, LBRACKET, TAB, BS}

InitEscape ==
    /\ cli = Setup(DefaultConfig)
    /\ ghost = Started(cli)

\* the bytes the terminal can send after the bytes the engine has consumed
EscapeSends(c) ==
    \/ IS_FLAG_SET(cli.flags, CLI_FLAG_ESCAPE_MODE)
    \/ c \in {CHAR_A, SPACE, CR, ESC, TAB, BS}
    \/ c = LBRACKET /\ cli.lastChar = ESC

NextEscape ==
    \E c \in EscapeKeys : EscapeSends(c) /\ Feed(c, [result |-> 0, prints |-> FALSE])

SpecEscape == InitEscape /\ [][NextEscape]_vars

(***************************************************************************)
(* What the properties speak of                                            *)
(***************************************************************************)
\* the line of the command buffer
LineOf(s) == CStr(s.cmdBuffer, 0)

Overflowed(s) == IS_FLAG_SET(s.flags, CLI_FLAG_OVERFLOW)

\* the bytes waiting in the ring, oldest first
RingContents(buffer) ==
    [i \in 1 .. fifoBufAvailable(buffer) |->
        buffer.buf[(buffer.front + i - 1) % buffer.size]]

\* sub occurs in seq
Contains(seq, sub) ==
    \E i \in 0 .. Len(seq) - Len(sub) : \A j \in 1 .. Len(sub) : seq[i + j] = sub[j]

\* the calls of a step to one callee
CallsTo(s, hook) ==
    LET IsHook(e) == e.hook = hook
    IN  SelectSeq(s.calls, IsHook)

\* the calls of a step to the handlers of the host and of the engine
HandlerCalls(s) ==
    LET IsHandler(e) == e.hook = "binding" \/ e.hook = "onCommand"
    IN  SelectSeq(s.calls, IsHandler)

\* the newest line of the history
NewestOf(s) == CStr(s.history.buf, 0)

\* c is the second byte of a CR LF or LF CR pair
SecondOfPair(last, c) == (last = CR /\ c = LF) \/ (last = LF /\ c = CR)

\* the last step consumed CR or LF as the end of a line
Submitted ==
    /\ ghost.op = "byte"
    /\ ghost.c \in {CR, LF}
    /\ ~SecondOfPair(ghost.pre.lastChar, ghost.c)

NonBlank(line) == \E i \in DOMAIN line : line[i] # SPACE

\* The reference of autocompletion: the bindings whose name starts with p,
\* none for the empty p
IsPrefixOf(p, name) == Len(p) <= Len(name) /\ \A j \in DOMAIN p : p[j] = name[j]

RefCandidates(s, p) ==
    IF p = <<>> THEN {}
    ELSE {i \in 0 .. s.bindingsCount - 1 : IsPrefixOf(p, BindingName(s, i))}

RefFirst(C) == CHOOSE i \in C : \A k \in C : i <= k

\* the length of the longest common prefix of the names of the bindings of C
RefCommonLen(s, C) ==
    LET first == BindingName(s, RefFirst(C))
        common == {n \in 0 .. Len(first) :
                      \A i \in C : IsPrefixOf(Slice(first, 0, n), BindingName(s, i))}
    IN  CHOOSE n \in common : \A m \in common : m <= n

\* the line tab-style completion makes of line p
RefCompletion(s, p) ==
    LET C == RefCandidates(s, p)
        first == BindingName(s, RefFirst(C))
    IN  IF C = {} THEN p
        ELSE IF Cardinality(C) = 1 THEN Append(first, SPACE)
        ELSE IF RefCommonLen(s, C) > Len(p) THEN Slice(first, 0, RefCommonLen(s, C))
        ELSE p

\* the names of the bindings of C from index i on, each on its own line
RECURSIVE RefListing(_, _, _)
RefListing(s, C, i) ==
    IF i >= s.bindingsCount THEN <<>>
    ELSE (IF i \in C THEN BindingName(s, i) \o lineBreak ELSE <<>>)
         \o RefListing(s, C, i + 1)

\* what the live autocompletion step emits for the line of s
LiveRepaint(s) == printLiveAutocompletion(Fresh(s)).out

(***************************************************************************)
(* C1                                                                      *)
(***************************************************************************)
\* Every batch of at most n bytes offered to the empty ring is kept whole (the
\* overflow flag stays clear, the ring holds the batch) and the process call
\* that follows pops exactly the batch, in order.
BatchPreserved(n) ==
    Len(ghost.batch) <= n =>
        /\ ghost.op = "receive" =>
              /\ ~Overflowed(cli)
              /\ RingContents(cli.rxBuffer) = ghost.batch
        /\ Emptied =>
              /\ ~Overflowed(ghost.pre)
              /\ cli.read = ghost.batch
              /\ fifoBufAvailable(cli.rxBuffer) = 0

\* C1 (as amended): for every byte sequence of length n <= rx-buffer-size - 1
\* ingested with receive-char into an empty ring before a process call, no byte
\* is dropped (the overflow flag stays clear) and the following process call
\* (with a non-null writeChar) consumes exactly those n bytes, each once, in
\* ingest order.
C1_RingPreservesBatch == BatchPreserved(cli.rxBuffer.size - 1)

\* C1 (as stated): the same for every byte sequence of length
\* n <= rx-buffer-size.
C1_AsStated == BatchPreserved(cli.rxBuffer.size)

\* a process call has consumed a full batch of rx-buffer-size - 1 bytes that
\* are not all the same
C1_Witness ==
    /\ Emptied
    /\ Len(ghost.batch) = cli.rxBuffer.size - 1
    /\ cli.read = ghost.batch
    /\ \E i \in DOMAIN ghost.batch : ghost.batch[i] # ghost.batch[1]

(***************************************************************************)
(* C2                                                                      *)
(***************************************************************************)
\* C2 (as stated): in every reachable state cmd-size + 2 <= M, the two trailing
\* bytes of the command buffer stay reserved.
C2_TwoBytesReserved == cli.cmdSize + 2 <= cli.cmdMaxSize

(***************************************************************************)
(* C3                                                                      *)
(***************************************************************************)
\* C3: receive-char sets the overflow flag exactly when the ring is full, and
\* then the byte is dropped (the ring is unchanged); otherwise the byte joins
\* the ring and the flag is left as it was.  A process call that runs after an
\* overflow ends with cmd-size = 0, the command buffer NUL-terminated at
\* index 0 and the overflow flag clear.
C3_OverflowPolicy ==
    /\ ghost.op = "receive" =>
          IF fifoBufAvailable(ghost.pre.rxBuffer) = ghost.pre.rxBuffer.size - 1
          THEN /\ Overflowed(cli)
               /\ cli.rxBuffer = ghost.pre.rxBuffer
          ELSE /\ Overflowed(cli) = Overflowed(ghost.pre)
               /\ RingContents(cli.rxBuffer)
                     = Append(RingContents(ghost.pre.rxBuffer), ghost.c)
    /\ Emptied =>
          /\ ~Overflowed(cli)
          /\ Overflowed(ghost.pre) =>
                /\ cli.cmdSize = 0
                /\ cli.cmdBuffer[0] = NUL

\* a process call that found the overflow flag set has discarded a line
C3_Witness ==
    /\ Emptied
    /\ Overflowed(ghost.pre)
    /\ ghost.pre.cmdSize > 0
    /\ cli.cmdSize = 0

(***************************************************************************)
(* C4                                                                      *)
(***************************************************************************)
\* On an empty line the name of binding i, or a prefix only binding i matches,
\* was typed and CR followed; binding i has a handler and a name no other
\* binding has, and the name with one space and the two reserved bytes fits
\* the command buffer.
TypedThenCR(i) ==
    LET typed == ghost.was.typed
        name == BindingName(ghost.pre, i)
    IN  /\ ghost.op = "byte" /\ ghost.c = CR
        /\ ghost.was.pure /\ typed # <<>>
        /\ ghost.pre.bindings[i].binding # "NULL"
        /\ \A k \in 0 .. ghost.pre.bindingsCount - 1 :
              k # i => BindingName(ghost.pre, k) # name
        /\ (typed = name \/ RefCandidates(ghost.pre, typed) = {i})
        /\ Len(name) + 1 + 2 <= ghost.pre.cmdMaxSize

\* C4: for every registered binding with a non-null handler whose name is
\* unique in the table, typing on an empty line its name or a prefix only it
\* matches, followed by CR (the completed name plus one space fitting in the
\* command buffer), invokes that binding's handler exactly once, invokes no
\* other handler and does not emit the unknown-command message.
C4_UniqueNameDispatches ==
    \A i \in 0 .. cli.bindingsCount - 1 :
        TypedThenCR(i) =>
            /\ Len(HandlerCalls(cli)) = 1
            /\ HandlerCalls(cli)[1].hook = "binding"
            /\ HandlerCalls(cli)[1].index = i
            /\ ~Contains(cli.out, UnknownPrefix)

\* a proper prefix that only one binding matches was typed and CR invoked the
\* handler of that binding
C4_Witness ==
    \E i \in 0 .. cli.bindingsCount - 1 :
        /\ TypedThenCR(i)
        /\ Len(ghost.was.typed) < Len(BindingName(ghost.pre, i))
        /\ Len(HandlerCalls(cli)) = 1
        /\ HandlerCalls(cli)[1].index = i

(***************************************************************************)
(* C5                                                                      *)
(***************************************************************************)
\* The dispatcher is given the line expected, once, and the history records
\* it when it fits: what CR or LF does with a line that is not blank.
SubmittedAs(expected) ==
    /\ Len(CallsTo(cli, "parseCommand")) = 1
    /\ CallsTo(cli, "parseCommand")[1].name = expected
    /\ Len(expected) + 1 <= cli.history.bufferSize =>
          /\ cli.history.itemsCount >= 1
          /\ NewestOf(cli) = expected

\* C5 (as amended): on CR or LF the command buffer is changed before dispatch
\* when exactly one binding matches the typed line as a prefix (it becomes the
\* name of that binding and one space) and when two or more bindings match and
\* their longest common prefix is longer than the typed line (it becomes that
\* common prefix); when no binding matches, or two or more match with nothing
\* to extend, the line that is recorded in history and dispatched is
\* byte-identical to the line the user typed.
C5_EnterCompletesAsTab ==
    Submitted /\ NonBlank(LineOf(ghost.pre)) =>
        SubmittedAs(RefCompletion(ghost.pre, LineOf(ghost.pre)))

\* C5 (as stated): on CR or LF the command buffer is changed before dispatch
\* only when exactly one binding matches the typed line as a prefix; when zero
\* or two or more bindings match, the line that is recorded in history and
\* dispatched is byte-identical to the line the user typed.
C5_AsStated ==
    /\ Submitted /\ NonBlank(LineOf(ghost.pre))
    /\ Cardinality(RefCandidates(ghost.pre, LineOf(ghost.pre))) # 1
    => SubmittedAs(LineOf(ghost.pre))

\* CR or LF ended a line that two or more bindings match and the common prefix
\* of their names, longer than the line, was dispatched and recorded
C5_Witness ==
    /\ Submitted /\ NonBlank(LineOf(ghost.pre))
    /\ Cardinality(RefCandidates(ghost.pre, LineOf(ghost.pre))) > 1
    /\ RefCompletion(ghost.pre, LineOf(ghost.pre)) # LineOf(ghost.pre)
    /\ SubmittedAs(RefCompletion(ghost.pre, LineOf(ghost.pre)))
    /\ NewestOf(cli) = RefCompletion(ghost.pre, LineOf(ghost.pre))

(***************************************************************************)
(* C6                                                                      *)
(***************************************************************************)
\* what a byte other than Tab, CR and LF emits when nothing is repainted
PlainEcho(pre, c) ==
    IF isDisplayableChar(c)
    THEN (IF pre.cmdSize + 2 < pre.cmdMaxSize THEN <<c>> ELSE <<>>)
    ELSE IF (c = BS \/ c = DEL) /\ pre.cmdSize > 0 THEN <<BS, SPACE, BS>>
    ELSE <<>>

\* C6 (as amended): when the engine is constructed with
\* enable-auto-complete = false only the live autocompletion is off: no byte
\* makes the engine repaint the line or touch input-line-length on its own,
\* while Tab still completes the command buffer and Enter still dispatches the
\* completed line, both as with autocompletion enabled.
C6_OnlyLiveCompletionOff ==
    ghost.op = "byte" =>
        /\ ghost.c \notin {TAB, CR, LF} =>
              /\ cli.out = PlainEcho(ghost.pre, ghost.c)
              /\ cli.inputLineLength = ghost.pre.inputLineLength
        /\ SecondOfPair(ghost.pre.lastChar, ghost.c) => cli.out = <<>>
        /\ ghost.c = TAB =>
              /\ LineOf(cli) = RefCompletion(ghost.pre, LineOf(ghost.pre))
              /\ cli.cmdSize = Len(LineOf(cli))
        /\ Submitted /\ NonBlank(LineOf(ghost.pre)) =>
              SubmittedAs(RefCompletion(ghost.pre, LineOf(ghost.pre)))

\* C6 (as stated): when the engine is constructed with
\* enable-auto-complete = false, Tab leaves the command buffer and cmd-size
\* unchanged and Enter dispatches the line exactly as typed.
C6_AsStated ==
    ghost.op = "byte" =>
        /\ ghost.c = TAB =>
              /\ LineOf(cli) = LineOf(ghost.pre)
              /\ cli.cmdSize = ghost.pre.cmdSize
        /\ Submitted /\ NonBlank(LineOf(ghost.pre)) => SubmittedAs(LineOf(ghost.pre))

\* with autocompletion disabled Tab has completed a prefix to the name of the
\* only binding that matches it, and one space
C6_Witness ==
    /\ ~IS_FLAG_SET(cli.flags, CLI_FLAG_AUTOCOMPLETE_ENABLED)
    /\ ghost.op = "byte" /\ ghost.c = TAB
    /\ Cardinality(RefCandidates(ghost.pre, LineOf(ghost.pre))) = 1
    /\ LineOf(cli) # LineOf(ghost.pre)
    /\ LineOf(cli) = RefCompletion(ghost.pre, LineOf(ghost.pre))

(***************************************************************************)
(* C7                                                                      *)
(***************************************************************************)
\* C7: for every sequence of displayable bytes of length < cmd-buffer-size - 1
\* typed on an empty line, the command buffer equals exactly those bytes in
\* order, cmd-size equals their count and the buffer is NUL-terminated at
\* cmd-size; a displayable byte arriving when cmd-size + 2 >= capacity is
\* dropped with the buffer unchanged and without echo (the step emits only the
\* repaint of the unchanged line).
C7_TypedLineStored ==
    /\ ghost.pure =>
          /\ LineOf(cli) = ghost.typed
          /\ cli.cmdSize = Len(ghost.typed)
          /\ cli.cmdBuffer[cli.cmdSize] = NUL
    /\ (/\ ghost.op = "byte" /\ isDisplayableChar(ghost.c)
        /\ ghost.pre.cmdSize + 2 >= ghost.pre.cmdMaxSize) =>
          /\ cli.cmdBuffer = ghost.pre.cmdBuffer
          /\ cli.cmdSize = ghost.pre.cmdSize
          /\ cli.out = LiveRepaint(ghost.pre)
          /\ cli.out[1] # ghost.c

\* a line of cmd-buffer-size - 2 displayable bytes was typed and stored, and
\* the displayable byte that followed was dropped
C7_Witness ==
    /\ ghost.op = "byte" /\ isDisplayableChar(ghost.c)
    /\ ghost.was.pure
    /\ Len(ghost.was.typed) = cli.cmdMaxSize - 2
    /\ LineOf(ghost.pre) = ghost.was.typed
    /\ LineOf(cli) = ghost.was.typed

(***************************************************************************)
(* C8                                                                      *)
(***************************************************************************)
\* C8: for every binding table and every prefix p, the autocompletion result
\* equals the reference: candidate-count is the number of bindings whose name
\* starts with p, first-candidate is the first such binding in insertion
\* order, autocompleted-len is the full name length when there is exactly one
\* candidate and otherwise the length of the longest common prefix of all
\* candidates (>= |p|, <= the shortest candidate's length); an empty prefix
\* yields candidate-count 0.
C8_MatchesReference ==
    ghost.op = "autocomplete" =>
        LET p == LineOf(ghost.pre)
            C == RefCandidates(ghost.pre, p)
            r == ghost.result
        IN  /\ r.candidateCount = Cardinality(C)
            /\ p = <<>> => r.candidateCount = 0
            /\ C = {} => r.firstCandidate = NULL /\ r.autocompletedLen = 0
            /\ C # {} =>
                  /\ r.firstCandidate = RefFirst(C)
                  /\ r.autocompletedLen = RefCommonLen(ghost.pre, C)
                  /\ Cardinality(C) = 1 =>
                        r.autocompletedLen = Len(BindingName(ghost.pre, r.firstCandidate))
                  /\ r.autocompletedLen >= Len(p)
                  /\ \A i \in C : r.autocompletedLen <= Len(BindingName(ghost.pre, i))
            /\ \A i \in 0 .. cli.bindingsCount - 1 :
                  IS_FLAG_SET(cli.bindingsFlags[i], BINDING_FLAG_AUTOCOMPLETE) <=> i \in C

\* two or more bindings match the prefix and a later one is shorter than the
\* first: the common prefix ends before the name of the first candidate does
C8_Witness ==
    /\ ghost.op = "autocomplete"
    /\ ghost.result.candidateCount >= 2
    /\ ghost.result.autocompletedLen
          < Len(BindingName(ghost.pre, ghost.result.firstCandidate))
    /\ ghost.result.autocompletedLen = Len(LineOf(ghost.pre))

(***************************************************************************)
(* C9                                                                      *)
(***************************************************************************)
\* C9: on Tab with k candidates for the command buffer: k = 0 leaves the buffer
\* unchanged; k = 1 makes it the candidate's name followed by one space; k > 1
\* with a common prefix longer than the buffer extends it to that common
\* prefix with no trailing space; k > 1 with nothing to extend leaves the
\* buffer and cmd-size unchanged and prints each candidate name, in binding
\* insertion order, on its own line.  After any of these cmd-size equals the
\* buffer's string length.
C9_TabCompletion ==
    ghost.op = "byte" /\ ghost.c = TAB =>
        LET p == LineOf(ghost.pre)
            C == RefCandidates(ghost.pre, p)
            k == Cardinality(C)
            first == BindingName(ghost.pre, RefFirst(C))
            n == RefCommonLen(ghost.pre, C)
        IN  /\ cli.cmdSize = Len(LineOf(cli))
            /\ k = 0 => LineOf(cli) = p
            /\ k = 1 => LineOf(cli) = first \o <<SPACE>>
            /\ k > 1 /\ n > Len(p) => LineOf(cli) = Slice(first, 0, n)
            /\ k > 1 /\ n <= Len(p) =>
                  /\ LineOf(cli) = p
                  /\ cli.cmdSize = ghost.pre.cmdSize
                  /\ Contains(cli.out, RefListing(ghost.pre, C, 0)
                                       \o cli.invitation \o p)

\* Tab on a line that two bindings match with nothing to extend has listed
\* their names
C9_Witness ==
    /\ ghost.op = "byte" /\ ghost.c = TAB
    /\ Cardinality(RefCandidates(ghost.pre, LineOf(ghost.pre))) > 1
    /\ LineOf(cli) = LineOf(ghost.pre)
    /\ Contains(cli.out,
                RefListing(ghost.pre, RefCandidates(ghost.pre, LineOf(ghost.pre)), 0))

(***************************************************************************)
(* C10                                                                     *)
(***************************************************************************)
\* the second byte of a CR LF or LF CR pair causes no dispatch, no call of a
\* handler, no history insertion and no line break, and leaves the line alone
SecondByteSubmitsNothing ==
    /\ cli.calls = <<>>
    /\ cli.history = ghost.pre.history
    /\ cli.cmdBuffer = ghost.pre.cmdBuffer
    /\ cli.cmdSize = ghost.pre.cmdSize
    /\ ~Contains(cli.out, lineBreak)

\* C10 (as amended): a line terminated by the pair CR LF or LF CR is submitted
\* exactly once: the second byte of the pair causes no dispatch, no history
\* insertion and no line break; with live autocompletion enabled it still
\* makes the engine repaint the empty prompt line (CR and the invitation).
\* Every non-blank line terminated by CR, LF, CR LF or LF CR produces exactly
\* one dispatch.
C10_PairSubmitsOnce ==
    ghost.op = "byte" /\ ghost.c \in {CR, LF} =>
        IF SecondOfPair(ghost.pre.lastChar, ghost.c)
        THEN /\ SecondByteSubmitsNothing
             /\ cli.out = <<CR>> \o cli.invitation
        ELSE NonBlank(LineOf(ghost.pre)) => Len(CallsTo(cli, "parseCommand")) = 1

\* C10 (as stated): the second byte of the pair causes no dispatch, no history
\* insertion and no additional line break or prompt.
C10_AsStated ==
    (/\ ghost.op = "byte" /\ ghost.c \in {CR, LF}
     /\ SecondOfPair(ghost.pre.lastChar, ghost.c)) =>
        /\ SecondByteSubmitsNothing
        /\ ~Contains(cli.out, cli.invitation)

\* LF arrived right after the CR that submitted a line and dispatched nothing
C10_Witness ==
    /\ ghost.op = "byte" /\ ghost.c = LF
    /\ ghost.pre.lastChar = CR
    /\ cli.history.itemsCount >= 1
    /\ cli.calls = <<>>

(***************************************************************************)
(* C11                                                                     *)
(***************************************************************************)
\* item i of a history, newest first; <<NULL>> when historyGet finds none
ItemOf(history, i) ==
    LET p == historyGet(history, i)
    IN  IF p = NULL THEN <<NULL>> ELSE CStr(history.buf, p)

\* the live items of a history, newest first
HistoryItems(history) == [i \in 1 .. history.itemsCount |-> ItemOf(history, i)]

Range(seq) == {seq[i] : i \in DOMAIN seq}

\* the last step gave a line to the dispatcher
Dispatched == Submitted /\ CallsTo(cli, "parseCommand") # <<>>

\* the line the dispatcher was given
DispatchedLine == CallsTo(cli, "parseCommand")[1].name

\* the last step put a line that fits into the history
PutLine ==
    /\ Dispatched
    /\ NonBlank(DispatchedLine)
    /\ Len(DispatchedLine) + 1 <= cli.history.bufferSize

\* C11: after a line that fits is put into the history, item 1 of the
\* history is that line, byte for byte.
C11_PutIsNewest ==
    PutLine =>
        /\ cli.history.itemsCount >= 1
        /\ ItemOf(cli.history, 1) = DispatchedLine

\* a new line is put into a history of two items or more and the oldest
\* item is evicted for it
C11_Witness ==
    /\ PutLine
    /\ ghost.pre.history.itemsCount >= 2
    /\ DispatchedLine \notin Range(HistoryItems(ghost.pre.history))
    /\ cli.history.itemsCount <= ghost.pre.history.itemsCount
    /\ ItemOf(cli.history, 1) = DispatchedLine

(***************************************************************************)
(* C12                                                                     *)
(***************************************************************************)
\* the items of a sequence other than s, in their order
Without(items, s) ==
    LET Other(x) == x # s
    IN  SelectSeq(items, Other)

\* C12: no two live items of the history are equal, and putting a line
\* that is already in the history keeps itemsCount, makes the line item 1
\* and keeps the other items in their order.
C12_HistoryUnique ==
    /\ \A i, j \in 1 .. cli.history.itemsCount :
           i # j => ItemOf(cli.history, i) # ItemOf(cli.history, j)
    /\ (PutLine /\ DispatchedLine \in Range(HistoryItems(ghost.pre.history))) =>
           /\ cli.history.itemsCount = ghost.pre.history.itemsCount
           /\ HistoryItems(cli.history)
                = <<DispatchedLine>> \o Without(HistoryItems(ghost.pre.history), DispatchedLine)

\* the middle item of a history of three is put again
C12_Witness ==
    /\ PutLine
    /\ ghost.pre.history.itemsCount = 3
    /\ ItemOf(ghost.pre.history, 2) = DispatchedLine
    /\ HistoryItems(cli.history)
         = <<ItemOf(ghost.pre.history, 2), ItemOf(ghost.pre.history, 1),
             ItemOf(ghost.pre.history, 3)>>

(***************************************************************************)
(* C13                                                                     *)
(***************************************************************************)
\* the last step consumed the final byte of a cursor up or cursor down key
Navigated ==
    /\ ghost.op = "byte"
    /\ IS_FLAG_SET(ghost.pre.flags, CLI_FLAG_ESCAPE_MODE)
    /\ ghost.c \in {CHAR_A, CHAR_B}

\* the navigation the claim calls a no-op
AtLimit(s, up) ==
    \/ s.history.itemsCount = 0
    \/ (up /\ s.history.current = s.history.itemsCount)
    \/ (~up /\ s.history.current = 0)

\* the line the cursor of the history stands on
CursorLine(s) ==
    IF s.history.current = 0 THEN <<>> ELSE ItemOf(s.history, s.history.current)

\* C13: the cursor of the history stays within 0 .. itemsCount; cursor up
\* at the oldest item or on an empty history and cursor down at the fresh
\* line change neither the cursor nor the command buffer; any other
\* navigation moves the cursor by one and makes the command buffer the item
\* the cursor stands on, the empty line at 0, with cmdSize its length.
C13_CursorInRange ==
    /\ 0 <= cli.history.current
    /\ cli.history.current <= cli.history.itemsCount
    /\ Navigated =>
          IF AtLimit(ghost.pre, ghost.c = CHAR_A)
          THEN /\ cli.history.current = ghost.pre.history.current
               /\ cli.cmdBuffer = ghost.pre.cmdBuffer
               /\ cli.cmdSize = ghost.pre.cmdSize
          ELSE /\ cli.history.current
                    = ghost.pre.history.current + (IF ghost.c = CHAR_A THEN 1 ELSE -1)
               /\ LineOf(cli) = CursorLine(cli)
               /\ cli.cmdSize = Len(CursorLine(cli))

\* cursor up reaches the second item over a typed line
C13_Witness ==
    /\ Navigated
    /\ ghost.c = CHAR_A
    /\ ghost.pre.history.current = 1
    /\ cli.history.current = 2
    /\ LineOf(cli) = ItemOf(cli.history, 2)
    /\ LineOf(cli) # LineOf(ghost.pre)

\* cursor up at the oldest item leaves the line
C13_WitnessLimit ==
    /\ Navigated
    /\ ghost.c = CHAR_A
    /\ ghost.pre.history.itemsCount = 2
    /\ ghost.pre.history.current = 2
    /\ cli.history.current = 2

(***************************************************************************)
(* C14                                                                     *)
(***************************************************************************)
\* the tokens the accessors read from a tokenized buffer
TokensOf(buf) ==
    [i \in 1 .. embeddedCliGetTokenCount(buf, 0) |->
        LET p == embeddedCliGetToken(buf, 0, i)
        IN  IF p = NULL THEN <<NULL>> ELSE CStr(buf, p)]

\* The reference of tokenization.  Position i of str is escaped when it
\* follows a backslash that is not escaped itself.
RECURSIVE Escaped(_, _)
Escaped(str, i) == i > 1 /\ str[i - 1] = BACKSLASH /\ ~Escaped(str, i - 1)

\* a double quote that opens or closes a quotation
IsQuoteMark(str, i) == str[i] = QUOTE /\ ~Escaped(str, i)

\* a backslash that escapes the byte after it
IsEscape(str, i) == str[i] = BACKSLASH /\ ~Escaped(str, i)

\* position i is after a quote mark that opens a quotation and before the
\* one that closes it, if there is one
InQuotes(str, i) == Cardinality({j \in 1 .. i - 1 : IsQuoteMark(str, j)}) % 2 = 1

\* a space outside quotes that is not escaped
TopSpace(str, i) == str[i] = SPACE /\ ~Escaped(str, i) /\ ~InQuotes(str, i)

\* The tokens of str: the maximal runs of bytes that end at a top-level space
\* and at a quote mark, without the backslashes that escape.
RECURSIVE RefTokensFrom(_, _, _, _)
RefTokensFrom(str, i, tokens, open) ==
    IF i > Len(str) THEN tokens
    ELSE IF TopSpace(str, i) \/ IsQuoteMark(str, i)
    THEN RefTokensFrom(str, i + 1, tokens, FALSE)
    ELSE IF IsEscape(str, i)
    THEN RefTokensFrom(str, i + 1, tokens, open)
    ELSE IF open
    THEN RefTokensFrom(str, i + 1,
                       [tokens EXCEPT ![Len(tokens)] = Append(@, str[i])], TRUE)
    ELSE RefTokensFrom(str, i + 1, Append(tokens, <<str[i]>>), TRUE)

RefTokens(str) == RefTokensFrom(str, 1, <<>>, FALSE)

\* a token that tokenization leaves as it is
Plain(token) == \A i \in DOMAIN token : token[i] \notin {SPACE, QUOTE, BACKSLASH}

\* the buffer was tokenized once, twice
TokenizedOnce == cli.runs = 1

TokenizedTwice == cli.runs = 2

\* C14: a second run of tokenize-args reads the tokenized buffer as the C
\* string that ends at its first NUL: the tokens it leaves are those of the
\* first token of the first run alone, and the buffer is unchanged when the
\* first run left no token or a single token without space, quote or
\* backslash.
C14_SecondRunKeepsFirst ==
    TokenizedTwice =>
        LET once == TokensOf(ghost.pre)
        IN  /\ TokensOf(cli.args) = (IF once = <<>> THEN <<>> ELSE RefTokens(once[1]))
            /\ (once = <<>> \/ (Len(once) = 1 /\ Plain(once[1]))) => cli.args = ghost.pre

\* C14 as stated: the second run leaves the buffer and its tokens unchanged
C14_AsStated ==
    TokenizedTwice =>
        /\ cli.args = ghost.pre
        /\ TokensOf(cli.args) = TokensOf(ghost.pre)

\* "a b a" gives [a, b, a] after one run and [a] after the second
C14_Witness ==
    /\ TokenizedTwice
    /\ ghost.raw = <<CHAR_A, SPACE, CHAR_B, SPACE, CHAR_A>>
    /\ TokensOf(ghost.pre) = <<(<<CHAR_A>>), (<<CHAR_B>>), (<<CHAR_A>>)>>
    /\ TokensOf(cli.args) = <<(<<CHAR_A>>)>>

(***************************************************************************)
(* C15                                                                     *)
(***************************************************************************)
\* the number of maximal runs of str between top-level spaces
Groups(str) ==
    Cardinality({i \in 1 .. Len(str) :
                    ~TopSpace(str, i) /\ (i = 1 \/ TopSpace(str, i - 1))})

\* C15: the count of the tokens of tokenize-args(s) is the number of maximal
\* runs of kept bytes of s, where a run ends at every space that is outside
\* quotes and not escaped and at every quote mark, and the backslashes that
\* escape are not kept.
C15_CountsRuns ==
    TokenizedOnce =>
        embeddedCliGetTokenCount(cli.args, 0) = Len(RefTokens(ghost.raw))

\* C15 as stated: the count is the number of top-level space-separated groups
C15_AsStated ==
    TokenizedOnce =>
        embeddedCliGetTokenCount(cli.args, 0) = Groups(ghost.raw)

\* a"b"a is one group and three tokens
C15_Witness ==
    /\ TokenizedOnce
    /\ ghost.raw = <<CHAR_A, QUOTE, CHAR_B, QUOTE, CHAR_A>>
    /\ Groups(ghost.raw) = 1
    /\ embeddedCliGetTokenCount(cli.args, 0) = 3

(***************************************************************************)
(* C16                                                                     *)
(***************************************************************************)
\* the tokens, each followed by a NUL but the last
RECURSIVE Joined(_)
Joined(tokens) ==
    IF tokens = <<>> THEN <<>>
    ELSE IF Len(tokens) = 1 THEN tokens[1]
    ELSE tokens[1] \o <<NUL>> \o Joined(Tail(tokens))

\* the indices of buf where two NULs follow each other
DoubleNuls(buf) == {d \in DOMAIN buf : At(buf, 0, d) = NUL /\ At(buf, 0, d + 1) = NUL}

\* the index of the first double NUL of buf
Terminator(buf) == CHOOSE d \in DoubleNuls(buf) : \A e \in DoubleNuls(buf) : d <= e

\* the spaces of the tokens
SpacesOf(tokens) ==
    {<<i, j>> \in (DOMAIN tokens) \X (1 .. MaxArgLen + 1) :
        j \in DOMAIN tokens[i] /\ tokens[i][j] = SPACE}

\* C16: the output of tokenize-args(s) is the tokens of s, each non-empty
\* and separated by a single NUL, up to the double NUL that ends it: no
\* NUL at position 0 unless no token is left, no longer than s, and a space
\* of s is kept in a token exactly when it is inside quotes (after a quote
\* mark that opens and before the one that closes, if any) or follows a
\* backslash that escapes; quote marks and escaping backslashes are removed.
C16_TokenizeOutput ==
    TokenizedOnce =>
        LET d == Terminator(cli.args)
            tokens == TokensOf(cli.args)
        IN  /\ DoubleNuls(cli.args) # {}
            /\ d <= Len(ghost.raw)
            /\ d > 0 => cli.args[0] # NUL
            /\ [i \in 1 .. d |-> cli.args[i - 1]] = Joined(tokens)
            /\ \A i \in DOMAIN tokens : tokens[i] # <<>>
            /\ tokens = RefTokens(ghost.raw)
            /\ Cardinality(SpacesOf(tokens))
                 = Cardinality({i \in 1 .. Len(ghost.raw) :
                                   /\ ghost.raw[i] = SPACE
                                   /\ (InQuotes(ghost.raw, i) \/ Escaped(ghost.raw, i))})

\* "a b" gives the single token a b
C16_Witness ==
    /\ TokenizedOnce
    /\ ghost.raw = <<QUOTE, CHAR_A, SPACE, CHAR_B, QUOTE>>
    /\ TokensOf(cli.args) = <<(<<CHAR_A, SPACE, CHAR_B>>)>>

\* a\ b gives the single token a b
C16_WitnessEscaped ==
    /\ TokenizedOnce
    /\ ghost.raw = <<CHAR_A, BACKSLASH, SPACE, CHAR_B>>
    /\ TokensOf(cli.args) = <<(<<CHAR_A, SPACE, CHAR_B>>)>>

(***************************************************************************)
(* C17                                                                     *)
(***************************************************************************)
\* the last step consumed BS or DEL outside an escape sequence
Erased ==
    /\ ghost.op = "byte"
    /\ ghost.c \in {BS, DEL}
    /\ ~IS_FLAG_SET(ghost.pre.flags, CLI_FLAG_ESCAPE_MODE)

\* the engine without what the live autocompletion step and the end of the
\* loop of process write: the flags of the candidates, the length of the
\* line on the screen and the last byte
Edited(s) ==
    [Fresh(s) EXCEPT !.bindingsFlags = [i \in DOMAIN @ |-> 0],
                     !.inputLineLength = 0,
                     !.lastChar = NUL]

\* C17: backspace (BS or DEL) consumed at cmdSize = 0 changes neither the
\* command buffer nor cmdSize nor anything else but the last byte recorded
\* and what the live autocompletion step writes, and emits only the repaint
\* of that step (nothing with live autocompletion disabled); consumed at
\* cmdSize = 1 it leaves an empty NUL-terminated command buffer and emits
\* BS, space, BS, followed by the repaint of the live autocompletion step
\* (by nothing with live autocompletion disabled).
C17_Backspace ==
    Erased =>
        /\ cli.lastChar = ghost.c
        /\ ~IS_FLAG_SET(cli.flags, CLI_FLAG_AUTOCOMPLETE_ENABLED) =>
              cli.inputLineLength = ghost.pre.inputLineLength
        /\ ghost.pre.cmdSize = 0 =>
              /\ Edited(cli) = Edited(ghost.pre)
              /\ cli.out = LiveRepaint(ghost.pre)
              /\ ~IS_FLAG_SET(cli.flags, CLI_FLAG_AUTOCOMPLETE_ENABLED) => cli.out = <<>>
        /\ ghost.pre.cmdSize = 1 =>
              /\ cli.cmdSize = 0
              /\ cli.cmdBuffer[0] = NUL
              /\ Edited(cli) = Edited([ghost.pre EXCEPT !.cmdSize = 0, !.cmdBuffer[0] = NUL])
              /\ cli.out = <<BS, SPACE, BS>>
                            \o LiveRepaint([cli EXCEPT
                                               !.inputLineLength = ghost.pre.inputLineLength])
              /\ ~IS_FLAG_SET(cli.flags, CLI_FLAG_AUTOCOMPLETE_ENABLED) =>
                    cli.out = <<BS, SPACE, BS>>

\* C17 as stated: backspace at cmdSize = 0 changes no state and emits no
\* byte; at cmdSize = 1 it leaves an empty command buffer and emits exactly
\* BS, space, BS
C17_AsStated ==
    Erased =>
        /\ ghost.pre.cmdSize = 0 => (Fresh(cli) = ghost.pre /\ cli.out = <<>>)
        /\ ghost.pre.cmdSize = 1 =>
              (cli.cmdSize = 0 /\ cli.cmdBuffer[0] = NUL /\ cli.out = <<BS, SPACE, BS>>)

\* DEL erases the only byte of the line with live autocompletion enabled and
\* the prompt is painted again after BS, space, BS
C17_Witness ==
    /\ Erased
    /\ ghost.c = DEL
    /\ ghost.pre.cmdSize = 1
    /\ IS_FLAG_SET(cli.flags, CLI_FLAG_AUTOCOMPLETE_ENABLED)
    /\ cli.cmdSize = 0
    /\ Len(cli.out) > 3
    /\ Slice(cli.out, 0, 3) = <<BS, SPACE, BS>>

\* BS on the empty line with live autocompletion disabled emits nothing
C17_WitnessEmpty ==
    /\ Erased
    /\ ghost.c = BS
    /\ ghost.pre.cmdSize = 0
    /\ ~IS_FLAG_SET(cli.flags, CLI_FLAG_AUTOCOMPLETE_ENABLED)
    /\ cli.out = <<>>
    /\ cli.lastChar # ghost.pre.lastChar

(***************************************************************************)
(* C18                                                                     *)
(***************************************************************************)
\* the last step ended a line of spaces
BlankSubmitted ==
    /\ Submitted
    /\ ghost.pre.cmdSize > 0
    /\ ~NonBlank(LineOf(ghost.pre))

\* C18: submitting a line that consists only of spaces invokes no handler of
\* a binding, no onCommand and no postCommand, emits no unknown-command
\* message and leaves the items of the history and itemsCount unchanged.
C18_BlankLineIgnored ==
    BlankSubmitted =>
        /\ HandlerCalls(cli) = <<>>
        /\ CallsTo(cli, "postCommand") = <<>>
        /\ ~Contains(cli.out, UnknownPrefix)
        /\ cli.history.buf = ghost.pre.history.buf
        /\ cli.history.itemsCount = ghost.pre.history.itemsCount

\* two spaces are submitted to an engine with both hooks and one line in its
\* history: the dispatcher is entered and returns
C18_Witness ==
    /\ BlankSubmitted
    /\ LineOf(ghost.pre) = <<SPACE, SPACE>>
    /\ ghost.pre.onCommand /\ ghost.pre.postCommand
    /\ ghost.pre.history.itemsCount = 1
    /\ CallsTo(cli, "parseCommand") # <<>>
    /\ cli.calls = CallsTo(cli, "parseCommand")

(***************************************************************************)
(* C19                                                                     *)
(***************************************************************************)
\* the first index of line at or after i that holds no space
RECURSIVE SkipSpaces(_, _)
SkipSpaces(line, i) ==
    IF i > Len(line) \/ line[i] # SPACE THEN i ELSE SkipSpaces(line, i + 1)

\* the first index of line at or after i that holds a space
RECURSIVE SkipWord(_, _)
SkipWord(line, i) ==
    IF i > Len(line) \/ line[i] = SPACE THEN i ELSE SkipWord(line, i + 1)

\* the name of the command of a line: its first word
NameOf(line) ==
    Slice(line, SkipSpaces(line, 1) - 1, SkipWord(line, SkipSpaces(line, 1)) - 1)

\* where the arguments of a line start: after the name and the spaces that
\* follow it
ArgsStart(line) == SkipSpaces(line, SkipWord(line, SkipSpaces(line, 1)))

HasArgs(line) == ArgsStart(line) <= Len(line)

ArgsOf(line) == Slice(line, ArgsStart(line) - 1, Len(line))

\* no binding of this name has a handler
NoHandlerFor(s, name) ==
    \A i \in 0 .. s.bindingsCount - 1 :
        BindingName(s, i) = name => s.bindings[i].binding = "NULL"

\* the last step submitted a non-blank line whose name has no handler
UnknownSubmitted ==
    /\ Dispatched
    /\ NonBlank(DispatchedLine)
    /\ NoHandlerFor(ghost.pre, NameOf(DispatchedLine))

\* C19: a submitted non-blank line whose name matches no binding with a
\* handler invokes no handler of a binding; without onCommand the
\* unknown-command message with exactly that name is emitted and postCommand,
\* if registered, is called exactly once with result 1; with onCommand the
\* hook is called exactly once with that name and those arguments and no
\* message is emitted.
C19_UnknownCommand ==
    UnknownSubmitted =>
        /\ CallsTo(cli, "binding") = <<>>
        /\ IF ghost.pre.onCommand
           THEN /\ Len(CallsTo(cli, "onCommand")) = 1
                /\ CallsTo(cli, "onCommand")[1].name = NameOf(DispatchedLine)
                /\ CallsTo(cli, "onCommand")[1].argsNull = ~HasArgs(DispatchedLine)
                /\ CallsTo(cli, "onCommand")[1].args = ArgsOf(DispatchedLine)
                /\ ~Contains(cli.out, UnknownPrefix)
           ELSE /\ CallsTo(cli, "onCommand") = <<>>
                /\ Contains(cli.out, UnknownPrefix \o NameOf(DispatchedLine)
                                         \o UnknownSuffix \o lineBreak)
                /\ Len(CallsTo(cli, "postCommand")) = (IF ghost.pre.postCommand THEN 1 ELSE 0)
                /\ \A k \in DOMAIN CallsTo(cli, "postCommand") :
                       CallsTo(cli, "postCommand")[k].result = 1

\* the name of the binding without a handler is submitted with an argument
\* to an engine with postCommand and without onCommand
C19_Witness ==
    /\ UnknownSubmitted
    /\ DispatchedLine = <<CHAR_B, SPACE, CHAR_A>>
    /\ ~ghost.pre.onCommand /\ ghost.pre.postCommand
    /\ Len(CallsTo(cli, "postCommand")) = 1
    /\ Contains(cli.out, UnknownPrefix \o <<CHAR_B>> \o UnknownSuffix)

\* an unknown name is submitted with an argument to an engine with onCommand
C19_WitnessFallback ==
    /\ UnknownSubmitted
    /\ DispatchedLine = <<CHAR_A, SPACE, CHAR_B>>
    /\ ghost.pre.onCommand
    /\ CallsTo(cli, "onCommand")[1].args = <<CHAR_B>>

(***************************************************************************)
(* C20                                                                     *)
(***************************************************************************)
\* the last step passed to embeddedCliParseDirectCommand a non-blank command
\* whose name has no handler
UnknownDirect ==
    /\ ghost.op = "direct"
    /\ NonBlank(ghost.batch)
    /\ NoHandlerFor(ghost.pre, NameOf(ghost.batch))

\* the calls of a step to the handlers of the bindings and to postCommand
BindingAndPostCalls(s) ==
    LET IsOne(e) == e.hook = "binding" \/ e.hook = "postCommand"
    IN  SelectSeq(s.calls, IsOne)

\* C20: with postCommand registered, a step that invokes the handler of a
\* binding calls postCommand exactly once, after it and with its result; a
\* step in which a command is unknown (no handler for its name, no onCommand),
\* submitted from the terminal or passed to parse-direct-command, calls
\* postCommand exactly once with 1; no other step calls it.
C20_PostCommandAlways ==
    cli.postCommand =>
        LET both == BindingAndPostCalls(cli)
        IN  IF CallsTo(cli, "binding") # <<>>
            THEN /\ Len(both) = 2
                 /\ both[1].hook = "binding"
                 /\ both[2].hook = "postCommand"
                 /\ both[2].result = both[1].result
            ELSE IF (UnknownSubmitted \/ UnknownDirect) /\ ~cli.onCommand
            THEN /\ Len(both) = 1
                 /\ both[1].result = 1
            ELSE both = <<>>

\* C20 for the lines submitted from the terminal and the bindings invoked
\* through parse-direct-command
C20_PostCommandButDirectUnknown ==
    cli.postCommand =>
        LET both == BindingAndPostCalls(cli)
        IN  IF CallsTo(cli, "binding") # <<>>
            THEN /\ Len(both) = 2
                 /\ both[1].hook = "binding"
                 /\ both[2].hook = "postCommand"
                 /\ both[2].result = both[1].result
            ELSE IF UnknownSubmitted /\ ~cli.onCommand
            THEN /\ Len(both) = 1
                 /\ both[1].result = 1
            ELSE both = <<>>

\* an unknown command is passed to parse-direct-command and postCommand is
\* not called
C20_DirectUnknownSilent ==
    /\ UnknownDirect
    /\ cli.postCommand /\ ~cli.onCommand
    /\ cli.calls = <<>>
    /\ cli.out = <<>>

(***************************************************************************)
(* C21                                                                     *)
(***************************************************************************)
\* the last step passed a command to embeddedCliParseDirectCommand
DirectStep == ghost.op = "direct"

\* the calls of a step to embeddedCliPrint
Prints(s) == CallsTo(s, "print")

\* the unknown-command message for a name
UnknownMessage(name) == UnknownPrefix \o name \o UnknownSuffix

\* the number of characters embeddedCliPrint leaves after the prompt when it
\* restores the line: the command, or the command with its live completion
RestoredLength(s) ==
    LET Shown(cmd) ==
            IF IS_FLAG_SET(s.flags, CLI_FLAG_AUTOCOMPLETE_ENABLED) /\ cmd.candidateCount > 0
            THEN cmd.autocompletedLen ELSE s.cmdSize
    IN  Shown(getAutocompletedCommand(s, LineOf(s)).cmd)

\* no binding with a handler matches the command passed directly
DirectUnmatched ==
    /\ DirectStep
    /\ (~NonBlank(ghost.batch) \/ NoHandlerFor(ghost.pre, NameOf(ghost.batch)))

\* C21: parse-direct-command leaves the history (items, itemsCount, cursor),
\* the command buffer and cmd-size unchanged, never invokes the on-command
\* fallback and never emits the unknown-command message for the name of the
\* command; input-line-length is unchanged unless the handler prints, and
\* then it is the length of the line print restores; when no binding with a
\* handler matches it returns 1, calls no hook and emits nothing.
C21_DirectFrame ==
    DirectStep =>
        /\ cli.history = ghost.pre.history
        /\ cli.cmdBuffer = ghost.pre.cmdBuffer
        /\ cli.cmdSize = ghost.pre.cmdSize
        /\ CallsTo(cli, "onCommand") = <<>>
        /\ ~Contains(cli.out, UnknownMessage(NameOf(ghost.batch)))
        /\ cli.inputLineLength = IF Prints(cli) = <<>> THEN ghost.pre.inputLineLength
                                 ELSE RestoredLength(ghost.pre)
        /\ DirectUnmatched => ghost.c = 1 /\ cli.calls = <<>> /\ cli.out = <<>>

\* C21 as stated: input-line-length is unchanged and no unknown-command
\* message is emitted, whatever the handler does
C21_AsStated ==
    DirectStep =>
        /\ cli.history = ghost.pre.history
        /\ cli.cmdBuffer = ghost.pre.cmdBuffer
        /\ cli.cmdSize = ghost.pre.cmdSize
        /\ cli.inputLineLength = ghost.pre.inputLineLength
        /\ CallsTo(cli, "onCommand") = <<>>
        /\ ~Contains(cli.out, UnknownPrefix)
        /\ DirectUnmatched => ghost.c = 1 /\ cli.calls = <<>>

\* a command with a handler is passed while a line is being typed and the
\* history holds a line; the handler prints and input-line-length changes
C21_Witness ==
    /\ DirectStep
    /\ ghost.pre.history.itemsCount > 0
    /\ ghost.pre.cmdSize > 0
    /\ CallsTo(cli, "binding") # <<>>
    /\ Prints(cli) # <<>>
    /\ cli.inputLineLength # ghost.pre.inputLineLength

\* the name of the binding without a handler is passed, onCommand is
\* registered and 1 is returned
C21_WitnessUnmatched ==
    /\ DirectUnmatched
    /\ ghost.batch = <<CHAR_B>>
    /\ ghost.pre.onCommand /\ ghost.pre.postCommand
    /\ ghost.pre.history.itemsCount > 0
    /\ ghost.c = 1

(***************************************************************************)
(* C22                                                                     *)
(***************************************************************************)
InitDone(s) == IS_FLAG_SET(s.flags, CLI_FLAG_INIT_COMPLETE)

\* the last step was a call of embeddedCliProcess
ProcessStep == ghost.op = "process"

\* the engine with the flag of the first call set and nothing observed
AfterFirst(s) == Fresh([s EXCEPT !.flags = SET_FLAG(@, CLI_FLAG_INIT_COMPLETE)])

\* C22: the initial invitation is emitted by the first process call made
\* with a write-char hook, before it consumes any byte: that call emits the
\* invitation and then does what a later call does; a call made when the
\* flag is set emits nothing when the ring is empty; the flag is never
\* cleared, no other operation sets it or emits anything, and a process call
\* without a write-char hook consumes no byte and changes nothing.
C22_InvitationOnce ==
    /\ InitDone(ghost.pre) => InitDone(cli)
    /\ ProcessStep /\ ~ghost.pre.writeChar =>
          /\ cli = ghost.pre
          /\ cli.read = <<>> /\ cli.out = <<>>
    /\ ProcessStep /\ ghost.pre.writeChar /\ ~InitDone(ghost.pre) =>
          LET later == embeddedCliProcess(AfterFirst(ghost.pre), [result |-> 0, prints |-> FALSE])
          IN  /\ InitDone(cli)
              /\ cli = [later EXCEPT !.out = ghost.pre.invitation \o later.out]
    /\ ProcessStep /\ InitDone(ghost.pre) /\ fifoBufAvailable(ghost.pre.rxBuffer) = 0 =>
          cli.out = <<>>
    /\ ghost.op \in {"receive", "hook"} =>
          /\ InitDone(cli) = InitDone(ghost.pre)
          /\ cli.out = <<>>

\* bytes are received before the hook is installed; the first process call
\* with the hook prints the invitation and then consumes them
C22_Witness ==
    /\ ProcessStep
    /\ ghost.pre.writeChar /\ ~InitDone(ghost.pre)
    /\ fifoBufAvailable(ghost.pre.rxBuffer) = 2
    /\ cli.read = <<CHAR_A, CR>>
    /\ SubSeq(cli.out, 1, Len(Invitation) + 1) = Invitation \o <<CHAR_A>>
    /\ InitDone(cli)

\* process is called without the hook while bytes wait in the ring
C22_WitnessNoHook ==
    /\ ProcessStep
    /\ ~ghost.pre.writeChar
    /\ fifoBufAvailable(cli.rxBuffer) > 0
    /\ ~InitDone(cli)

(***************************************************************************)
(* C23                                                                     *)
(***************************************************************************)
\* the last step of the consumer passed a line to a handler of the host: the
\* handler of a binding or the onCommand fallback
LineHandled ==
    /\ ghost.op = "char"
    /\ \E k \in DOMAIN cli.s.calls : cli.s.calls[k].hook \in {"binding", "onCommand"}

\* a byte was dropped between the bytes of the line last dispatched
LineLostByte == \E d \in ghost.drops : ghost.from <= d /\ d <= ghost.to

\* C23: with the producer and the consumer interleaved, no line that is
\* missing a byte dropped by ingest overflow is passed to a handler.
C23_NoCorruptLine == LineHandled => ~LineLostByte

\* a byte of the line is dropped while process runs, the bytes that follow
\* are pushed and popped by the same call, and the line is passed to a handler
C23_CorruptLineDispatched ==
    /\ LineHandled
    /\ LineLostByte
    /\ Overflowed(cli.s)

(***************************************************************************)
(* C24                                                                     *)
(***************************************************************************)
\* C24: an overflow recorded by receive-char stays in the flag word until the
\* check at the end of process sees it, whatever the consumer does to the
\* other flags meanwhile.
C24_OverflowNeverLost == ghost.unseen => Overflowed(cli.s)

\* the store of a read-modify-write of another flag has erased the overflow
\* bit the producer set after the load
C24_OverflowErased ==
    /\ ghost.op = "store"
    /\ ghost.unseen
    /\ ~Overflowed(cli.s)
    /\ ghost.drops # {}

(***************************************************************************)
(* C25                                                                     *)
(***************************************************************************)
\* C25: under every interleaving of the loads and stores of push and pop, the
\* bytes popped are the bytes pushed, in order and once each; the bytes in
\* the ring are the bytes pushed and not yet popped, so no slot is written
\* over before it is popped; and the ring never holds more than size - 1.
C25_RingIsFifo ==
    /\ Len(ghost.popped) <= Len(ghost.pushed)
    /\ ghost.popped = SubSeq(ghost.pushed, 1, Len(ghost.popped))
    /\ RingContents(cli.s.rxBuffer)
           = SubSeq(ghost.pushed, Len(ghost.popped) + 1, Len(ghost.pushed))
    /\ fifoBufAvailable(cli.s.rxBuffer) <= cli.s.rxBuffer.size - 1
    /\ cli.c.pc = "front" => cli.c.a = ghost.pushed[Len(ghost.popped) + 1]

\* the producer is about to publish a byte while the consumer is about to
\* release a slot, the ring has wrapped and bytes were popped before
C25_Witness ==
    /\ cli.p.pc = "back"
    /\ cli.c.pc = "front"
    /\ cli.s.rxBuffer.back < cli.s.rxBuffer.front
    /\ Len(ghost.popped) >= 2
    /\ ghost.popped = <<CHAR_A, CR>>

\* the ring is full and a byte has been dropped
C25_WitnessFull ==
    /\ fifoBufAvailable(cli.s.rxBuffer) = cli.s.rxBuffer.size - 1
    /\ ghost.drops # {}
    /\ Len(ghost.popped) >= 1

(***************************************************************************)
(* C26                                                                     *)
(***************************************************************************)
\* what embeddedCliPrint emits under the direct-print flag
DirectOutput(string) == string \o lineBreak

\* what embeddedCliPrint emits when it restores the line of engine s
RestoringOutput(s, string) ==
    <<CR>> \o Spaces(s.inputLineLength + Len(s.invitation)) \o <<CR>>
        \o string \o lineBreak \o s.invitation \o LineOf(s)
        \o LiveRepaint([s EXCEPT !.inputLineLength = s.cmdSize])

\* every print of the step emitted these bytes
PrintsEmit(bytes) == \A k \in DOMAIN Prints(cli) : Prints(cli)[k].args = bytes

\* C26: a print made by a handler or by the fallback that was dispatched from
\* the terminal emits the string and a line break, and nothing else; a print
\* made by a handler dispatched through parse-direct-command clears the
\* line, emits the string and a line break and restores the line; the
\* direct-print flag is clear whenever no handler or fallback is running.
C26_PrintUnderHandler ==
    /\ ~IS_FLAG_SET(cli.flags, CLI_FLAG_DIRECT_PRINT)
    /\ ghost.op = "byte" => PrintsEmit(DirectOutput(HandlerText))
    /\ DirectStep => PrintsEmit(RestoringOutput(ghost.pre, HandlerText))

\* C26 as stated: a print made while a handler runs emits the string and a
\* line break only, however the handler was dispatched
C26_AsStated ==
    /\ ~IS_FLAG_SET(cli.flags, CLI_FLAG_DIRECT_PRINT)
    /\ ghost.op \in {"byte", "direct"} => PrintsEmit(DirectOutput(HandlerText))

\* a handler dispatched through parse-direct-command prints while a line is
\* being typed
C26_Witness ==
    /\ DirectStep
    /\ CallsTo(cli, "binding") # <<>>
    /\ Len(Prints(cli)) = 1
    /\ ghost.pre.cmdSize > 0
    /\ Prints(cli)[1].args # DirectOutput(HandlerText)

\* the handler of a binding dispatched from the terminal prints
C26_WitnessRepl ==
    /\ ghost.op = "byte"
    /\ CallsTo(cli, "binding") # <<>>
    /\ Len(Prints(cli)) = 1
    /\ Prints(cli)[1].args = DirectOutput(HandlerText)

\* the fallback prints
C26_WitnessFallback ==
    /\ ghost.op = "byte"
    /\ CallsTo(cli, "onCommand") # <<>>
    /\ Len(Prints(cli)) = 1
    /\ Prints(cli)[1].args = DirectOutput(HandlerText)

(***************************************************************************)
(* C27                                                                     *)
(***************************************************************************)
\* the last step was a process call or a print made by the main loop
AtRest == (ghost.op = "byte" \/ ghost.op = "print") /\ ~cli.cmdOverrun

\* C27: at the end of every process call and of every print made outside a
\* handler, input-line-length is the number of characters displayed after the
\* prompt: the command, or the command with its live completion; with
\* autocompletion enabled and disabled.
C27_LengthIsDisplayed == AtRest => cli.inputLineLength = RestoredLength(cli)

\* C27 for the engine constructed with autocompletion enabled
C27_LengthWithAutocomplete ==
    AtRest /\ IS_FLAG_SET(cli.flags, CLI_FLAG_AUTOCOMPLETE_ENABLED) =>
        cli.inputLineLength = RestoredLength(cli)

\* autocompletion is disabled, a line is on the screen and input-line-length
\* is 0: the print that follows clears the invitation only
C27_StaleLength ==
    /\ ghost.op = "print"
    /\ ~IS_FLAG_SET(cli.flags, CLI_FLAG_AUTOCOMPLETE_ENABLED)
    /\ ghost.pre.cmdSize = 2
    /\ ghost.pre.inputLineLength = 0
    /\ cli.out = <<CR>> \o Spaces(Len(Invitation)) \o <<CR>> \o HandlerText \o lineBreak
                     \o Invitation \o LineOf(cli)

(***************************************************************************)
(* C28                                                                     *)
(***************************************************************************)
\* the last step consumed a byte that only edits the line, with live
\* autocompletion on: what it emits after the echo is the live step's output
LiveStep ==
    /\ ghost.op = "byte"
    /\ ghost.c \notin {TAB, CR, LF}
    /\ IS_FLAG_SET(cli.flags, CLI_FLAG_AUTOCOMPLETE_ENABLED)
    /\ ~cli.cmdOverrun

\* the line the byte leaves
EditedLine(pre, c) ==
    IF isDisplayableChar(c) /\ pre.cmdSize + 2 < pre.cmdMaxSize THEN Append(LineOf(pre), c)
    ELSE IF (c = BS \/ c = DEL) /\ pre.cmdSize > 0
    THEN SubSeq(LineOf(pre), 1, Len(LineOf(pre)) - 1)
    ELSE LineOf(pre)

\* the live step emitted the suffix, the spaces that erase a longer line and
\* the repaint of the prompt and the line
LiveEmits(suffix) ==
    \E k \in 0 .. MaxNameLen + CmdBufferSize :
        cli.out = PlainEcho(ghost.pre, ghost.c) \o suffix \o Spaces(k)
                      \o <<CR>> \o cli.invitation \o LineOf(cli)

\* the rest of the name of the first candidate of C, up to length n
SuffixOf(C, n) == Slice(BindingName(cli, RefFirst(C)), cli.cmdSize, n)

\* C28: the live autocompletion step echoes a suffix only when exactly one
\* binding matches the line (the rest of its name); with no candidate or
\* with several it emits no suffix; it never changes the command buffer or
\* cmd-size.
C28_SuffixOnlyWhenUnique ==
    LiveStep =>
        LET C == RefCandidates(cli, LineOf(cli))
        IN  /\ LineOf(cli) = EditedLine(ghost.pre, ghost.c)
            /\ cli.cmdSize = Len(LineOf(cli))
            /\ LiveEmits(IF Cardinality(C) = 1
                         THEN SuffixOf(C, Len(BindingName(cli, RefFirst(C))))
                         ELSE <<>>)

\* C28 with the suffix the code echoes: the rest of the longest common prefix
\* of the names of all candidates, however many they are
C28_CommonPrefixEchoed ==
    LiveStep =>
        LET C == RefCandidates(cli, LineOf(cli))
        IN  /\ LineOf(cli) = EditedLine(ghost.pre, ghost.c)
            /\ cli.cmdSize = Len(LineOf(cli))
            /\ LiveEmits(IF C = {} THEN <<>> ELSE SuffixOf(C, RefCommonLen(cli, C)))

\* two bindings match the line and a suffix is echoed
C28_SuffixForTwo ==
    /\ LiveStep
    /\ ghost.c = CHAR_A
    /\ LineOf(cli) = <<CHAR_A>>
    /\ Cardinality(RefCandidates(cli, LineOf(cli))) = 2
    /\ cli.out = <<CHAR_A, CHAR_A, CR>> \o cli.invitation \o <<CHAR_A>>

(***************************************************************************)
(* C29                                                                     *)
(***************************************************************************)
InEscape(s) == IS_FLAG_SET(s.flags, CLI_FLAG_ESCAPE_MODE)

\* the last step consumed a byte
ByteStep == ghost.op = "byte"

\* the line, its size and the history cursor are as the editor found them
LineKept ==
    /\ cli.cmdBuffer = ghost.pre.cmdBuffer
    /\ cli.cmdSize = ghost.pre.cmdSize
    /\ cli.history.current = ghost.pre.history.current

\* the item the history cursor stands on is the line; cursor 0 is the empty line
LineIsItem(current) ==
    /\ cli.history.current = current
    /\ cli.cmdSize = Len(CStr(cli.cmdBuffer, 0))
    /\ CStr(cli.cmdBuffer, 0)
         = IF current = 0 THEN <<>> ELSE ItemOf(ghost.pre.history, current)

\* one step of history navigation from the cursor the editor found: nothing
\* at the limit, else the cursor moves by one and its item becomes the line
NavigatedOnce(up) ==
    LET n == ghost.pre.history.itemsCount
        k == ghost.pre.history.current
    IN  IF n = 0 \/ (up /\ k = n) \/ (~up /\ k = 0) THEN LineKept
        ELSE LineIsItem(IF up THEN k + 1 ELSE k - 1)

\* C29: [ consumed after ESC outside escape mode enters escape mode; a byte
\* consumed in escape mode leaves it exactly when the byte is in 64..126;
\* every byte consumed in escape mode keeps the history items and calls
\* no hook, and keeps the command buffer and cmdSize unless it is A or B,
\* which performs one step of history navigation.
C29_EscapeMode ==
    ByteStep =>
        /\ (~InEscape(ghost.pre) /\ ghost.pre.lastChar = ESC /\ ghost.c = LBRACKET)
              => InEscape(cli)
        /\ InEscape(ghost.pre) =>
              /\ InEscape(cli) <=> ~(ghost.c >= 64 /\ ghost.c <= 126)
              /\ cli.history.buf = ghost.pre.history.buf
              /\ cli.history.itemsCount = ghost.pre.history.itemsCount
              /\ HistoryItems(cli.history) = HistoryItems(ghost.pre.history)
              /\ cli.calls = <<>>
              /\ IF ghost.c \in {CHAR_A, CHAR_B} THEN NavigatedOnce(ghost.c = CHAR_A)
                 ELSE LineKept

\* CR and LF are consumed one after the other in escape mode over a typed
\* line: no dispatch, the line stays and so does the mode
C29_Witness ==
    /\ ByteStep
    /\ InEscape(ghost.pre)
    /\ ghost.c \in {CR, LF}
    /\ ghost.pre.lastChar \in {CR, LF} \ {ghost.c}
    /\ ghost.pre.cmdSize > 0
    /\ ghost.pre.history.itemsCount > 0
    /\ InEscape(cli)
    /\ cli.calls = <<>>
    /\ cli.cmdSize = ghost.pre.cmdSize

\* the final byte A after an ignored byte recalls the newest item over a
\* different line
C29_WitnessNavigate ==
    /\ ByteStep
    /\ InEscape(ghost.pre)
    /\ ghost.pre.lastChar = SPACE
    /\ ghost.c = CHAR_A
    /\ ghost.pre.history.current = 0
    /\ ghost.pre.cmdSize > 0
    /\ ~InEscape(cli)
    /\ cli.history.current = 1
    /\ CStr(cli.cmdBuffer, 0) = ItemOf(cli.history, 1)
    /\ CStr(cli.cmdBuffer, 0) # CStr(ghost.pre.cmdBuffer, 0)

\* a second ESC [ is consumed in escape mode: the [ is a final byte and
\* leaves the mode
C29_WitnessFinalBracket ==
    /\ ByteStep
    /\ InEscape(ghost.pre)
    /\ ghost.pre.lastChar = ESC
    /\ ghost.c = LBRACKET
    /\ ~InEscape(cli)
    /\ LineKept

\* Tab or backspace is consumed in escape mode over a line of one byte
C29_WitnessTab ==
    /\ ByteStep
    /\ InEscape(ghost.pre)
    /\ ghost.c \in {TAB, BS}
    /\ ghost.pre.cmdSize = 1
    /\ InEscape(cli)

(***************************************************************************)
(* C30                                                                     *)
(***************************************************************************)
\* the items of a sequence laid out one after the other, each with its NUL
RECURSIVE Flat(_)
Flat(items) ==
    IF items = <<>> THEN <<>>
    ELSE Head(items) \o <<NUL>> \o Flat(Tail(items))

\* the live items are whole strings and fill the first bytes of the arena
Contiguous(history) ==
    LET flat == Flat(HistoryItems(history))
    IN  /\ \A i \in 1 .. history.itemsCount :
               /\ historyGet(history, i) # NULL
               /\ \A j \in DOMAIN ItemOf(history, i) : ItemOf(history, i)[j] # NUL
        /\ Len(flat) <= history.bufferSize
        /\ \A i \in 1 .. Len(flat) : history.buf[i - 1] = flat[i]

\* the longest prefix of items that fits into room bytes
LongestFit(items, room) ==
    LET Fits == {k \in 0 .. Len(items) : Len(Flat(SubSeq(items, 1, k))) <= room}
        k == CHOOSE m \in Fits : \A n \in Fits : n <= m
    IN  SubSeq(items, 1, k)

\* the bytes historyPut writes stay inside the arena: the memmove of the
\* items kept and the memcpy of the line
PutInArena(history, str) ==
    LET len == Len(str)
        h1 == historyRemove(history, str)
        ev == HistoryEvict(h1, len, h1.itemsCount)
    IN  /\ len + 1 <= history.bufferSize
        /\ ev.itemsCount > 0 => len + 1 + ev.usedSize <= history.bufferSize

\* the last step gave historyPut a line that does not fit
RefusedLine ==
    /\ Dispatched
    /\ NonBlank(DispatchedLine)
    /\ Len(DispatchedLine) + 1 > cli.history.bufferSize

\* C30: the live items with their NULs fill a prefix of the arena of at
\* most bufferSize bytes; after a put of a line that fits the line is item
\* 1 and the items after it are the previous items without the line, in
\* their order, cut to the longest prefix that fits beside the line, and
\* historyPut writes no byte outside the arena; a put of a line that does
\* not fit, on an arena of no bytes as well, leaves the history as it was.
C30_EvictsOldest ==
    /\ Contiguous(cli.history)
    /\ PutLine =>
          /\ PutInArena(ghost.pre.history, DispatchedLine)
          /\ HistoryItems(cli.history)
               = <<DispatchedLine>>
                   \o LongestFit(Without(HistoryItems(ghost.pre.history), DispatchedLine),
                                 cli.history.bufferSize - (Len(DispatchedLine) + 1))
    /\ RefusedLine =>
          /\ cli.history.buf = ghost.pre.history.buf
          /\ cli.history.itemsCount = ghost.pre.history.itemsCount

\* a new line is put into a full history of three items and the two oldest
\* are evicted for it
C30_Witness ==
    /\ PutLine
    /\ ghost.pre.history.itemsCount = 3
    /\ Len(Flat(HistoryItems(ghost.pre.history))) = ghost.pre.history.bufferSize
    /\ DispatchedLine \notin Range(HistoryItems(ghost.pre.history))
    /\ HistoryItems(cli.history) = <<DispatchedLine, ItemOf(ghost.pre.history, 1)>>

\* a line is refused by an arena that holds an item
C30_WitnessRefused ==
    /\ RefusedLine
    /\ ghost.pre.history.itemsCount = 1
    /\ cli.history.itemsCount = 1

\* a line is refused by the arena of no bytes
C30_WitnessNoArena ==
    /\ RefusedLine
    /\ cli.history.bufferSize = 0
    /\ cli.history.itemsCount = 0

\* an item is put again into a full history: nothing is evicted
C30_WitnessAgain ==
    /\ PutLine
    /\ ghost.pre.history.itemsCount = 3
    /\ Len(Flat(HistoryItems(ghost.pre.history))) = ghost.pre.history.bufferSize
    /\ ItemOf(ghost.pre.history, 3) = DispatchedLine
    /\ cli.history.itemsCount = 3

=============================================================================
